---------------------------- MODULE Spec2Model ----------------------------
(***************************************************************************)
(* A model of the howlong workspace analyser: FileAnalysisService,         *)
(* CacheService and GitIgnoreService, with the file system, the clock and  *)
(* the editor's notifications as the environment.                          *)
(*                                                                         *)
(* Strings of the program are sequences of one-character strings, so that  *)
(* lastIndexOf, endsWith and substring are computed.  File contents are    *)
(* sequences of byte values.  Lengths are integers in units of a tenth of   *)
(* a centimetre, the scale factor being a whole number of such units.      *)
(***************************************************************************)
EXTENDS Integers, Sequences, FiniteSets, TLC

(***************************************************************************)
(* Bounds of the model.                                                    *)
(***************************************************************************)
NumCallers == 2
MaxMtime == 2
MaxTicks == 2
MaxFiles == 3
MaxStaleFiles == 101
MaxGitignoreLength == 3
MaxCycleCalls == 6
MaxTypeFiles == 11
NumRequests == 2

(***************************************************************************)
(* Program constants.                                                      *)
(***************************************************************************)
CACHE_DURATION == 5 * 60 * 1000
chunkSize == 50

NULL == [null |-> TRUE]

Callers == 1..NumCallers

\* the requests of the tree view for the root items that can be underway
Requests == 1..NumRequests

(***************************************************************************)
(* String helpers (the methods of String.prototype).                      *)
(***************************************************************************)
RECURSIVE LastIndexFrom(_, _, _)
LastIndexFrom(s, ch, i) ==
    IF i = 0 THEN 0
    ELSE IF s[i] = ch THEN i
    ELSE LastIndexFrom(s, ch, i - 1)

\* 1-based position of the last occurrence of ch in s, 0 when there is none
\* (JavaScript: 0-based, -1 when there is none).
lastIndexOf(s, ch) == LastIndexFrom(s, ch, Len(s))

endsWith(s, suf) ==
    /\ Len(suf) <= Len(s)
    /\ SubSeq(s, Len(s) - Len(suf) + 1, Len(s)) = suf

startsWith(s, pre) ==
    /\ Len(pre) <= Len(s)
    /\ SubSeq(s, 1, Len(pre)) = pre

UpperCase == <<"A","B","C","D","E","F","G","H","I","J","K","L","M",
               "N","O","P","Q","R","S","T","U","V","W","X","Y","Z">>
LowerCase == <<"a","b","c","d","e","f","g","h","i","j","k","l","m",
               "n","o","p","q","r","s","t","u","v","w","x","y","z">>

toLowerChar(ch) ==
    IF \E i \in 1..26 : UpperCase[i] = ch
    THEN LowerCase[CHOOSE i \in 1..26 : UpperCase[i] = ch]
    ELSE ch

toLowerCase(s) == [i \in 1..Len(s) |-> toLowerChar(s[i])]

(***************************************************************************)
(* The state.                                                              *)
(*   fs                 the files on disk: exists, mtime, content           *)
(*   gitignoreFile      the .gitignore file: readable, content              *)
(*   now, ticks         Date.now() and the number of times it has advanced  *)
(*   workspaceFolders   whether vscode.workspace.workspaceFolders[0] exists *)
(*   cmPerCharacter     the calibrated scale factor (tenths of a cm)        *)
(*   cache              the CacheService                                    *)
(*   isAnalyzing        FileAnalysisService.isAnalyzing                     *)
(*   gitignore          GitIgnoreService: initialized, gitignorePatterns    *)
(*   run                per caller, the position and the locals of its      *)
(*                      analyzeWorkspace call                               *)
(*   lastOp             the last step: "call" for a call of                 *)
(*                      analyzeWorkspace, with what it returned or threw    *)
(*                      at once, "settle" when a pending call returns or    *)
(*                      throws, the name of a notification, or "await" and  *)
(*                      "environment" for the other steps                   *)
(*   view               ProjectStatsProvider: the file stats it was given,  *)
(*                      its projectStats, and the root files and the        *)
(*                      folders of its folder view; viewMode, what          *)
(*                      getFileTypeStats returned last, and the items of    *)
(*                      the view by file type.  projectStats is the object  *)
(*                      that the cache holds as projectStatsCache.  pc is   *)
(*                      "built" when rootItems holds the items of a view    *)
(*                      and "threw" when it holds what buildTreeItems had   *)
(*                      pushed before it threw; isLoading; per request of   *)
(*                      the root items, whether it awaits analyzeWorkspace  *)
(*   hist               history: what the current run has done, and what    *)
(*                      happened since the last store and the last return;  *)
(*                      stale: the files the run in flight had probed when  *)
(*                      a notification invalidated the cache; unchanged:    *)
(*                      the cached stats of the files that getModifiedFiles *)
(*                      did not return to the run in flight                 *)
(*   loop               the chunk loop of analyzeWorkspace over n files     *)
(*                      that differ in nothing: the index i, and per chunk  *)
(*                      the numbers of analyzeFile calls that await their   *)
(*                      stat, that await their read, and that have ended    *)
(*   ui                 the format modes of FileInfoStatusBar and of        *)
(*                      ProjectStatsView with its provider, the format      *)
(*                      modes kept in context.workspaceState, and history:  *)
(*                      the modes after construction and the number of      *)
(*                      times each cycle command was invoked since          *)
(***************************************************************************)
VARIABLES fs, gitignoreFile, now, ticks, workspaceFolders, cmPerCharacter,
          cache, isAnalyzing, gitignore, run, lastOp, hist, view, loop, ui

\* what the service does not write: the disk, the clock, the workspace, the
\* calibration and the provider of the tree view
envVars == <<fs, gitignoreFile, now, ticks, workspaceFolders, cmPerCharacter,
             view, loop, ui>>
vars == <<fs, gitignoreFile, now, ticks, workspaceFolders, cmPerCharacter,
          cache, isAnalyzing, gitignore, run, lastOp, hist, view, loop, ui>>

(***************************************************************************)
(* The workspace: its root folder and the files that can exist under it.   *)
(***************************************************************************)
WorkspaceRoot == <<"/","w">>

PathA == WorkspaceRoot \o <<"/","a",".","t","s">>
PathB == WorkspaceRoot \o <<"/","b","/","c",".","m","d">>

\* The files of a second workspace: a.txt, b/c.txt and b/d.bin.
PathTxtA == WorkspaceRoot \o <<"/","a",".","t","x","t">>
PathTxtC == WorkspaceRoot \o <<"/","b","/","c",".","t","x","t">>
PathBinD == WorkspaceRoot \o <<"/","b","/","d",".","b","i","n">>

\* The files that can exist under the workspace folder are those that fs
\* has an entry for.
Paths == DOMAIN fs

\* findFiles returns the files in this order.
PathOrder ==
    SelectSeq(<<PathA, PathB, PathTxtA, PathTxtC, PathBinD>>,
              LAMBDA p : p \in Paths)

\* vscode.workspace.asRelativePath: the path below the workspace folder.
asRelativePath(p) ==
    IF startsWith(p, WorkspaceRoot \o <<"/">>)
    THEN SubSeq(p, Len(WorkspaceRoot) + 2, Len(p))
    ELSE p

(***************************************************************************)
(* File contents and the strict UTF-8 decoder                              *)
(* (new TextDecoder('utf-8', {fatal: true}).decode).                       *)
(***************************************************************************)
TextOne == <<72, 105>>
TextTwo == <<195, 169, 33, 10>>
Binary == <<255, 0, 1>>

IsCont(b) == b >= 128 /\ b <= 191

\* the number of bytes of the UTF-8 sequence that byte b begins, 0 when b
\* begins none
SequenceLength(b) ==
    IF b < 128 THEN 1
    ELSE IF b >= 194 /\ b <= 223 THEN 2
    ELSE IF b >= 224 /\ b <= 239 THEN 3
    ELSE IF b >= 240 /\ b <= 244 THEN 4
    ELSE 0

\* a well-formed UTF-8 sequence begins at position i
WellFormedAt(bytes, i) ==
    LET b == bytes[i]
        k == SequenceLength(b)
    IN  /\ k > 0
        /\ i + k - 1 <= Len(bytes)
        /\ \A h \in 1..(k - 1) : IsCont(bytes[i + h])
        /\ (b = 224 => bytes[i + 1] >= 160)
        /\ (b = 237 => bytes[i + 1] <= 159)
        /\ (b = 240 => bytes[i + 1] >= 144)
        /\ (b = 244 => bytes[i + 1] <= 143)

\* Number of UTF-16 code units of the text decoded from position i on, or -1
\* if the bytes from i on are not valid UTF-8.  They are valid when the
\* first is not a continuation byte and every byte that is not one begins a
\* well-formed sequence, which the end or another such byte follows.
DecodeFrom(bytes, i) ==
    LET n == Len(bytes)
        leads == {j \in i..n : ~IsCont(bytes[j])}
    IN  IF i > n THEN 0
        ELSE IF /\ i \in leads
                /\ \A j \in leads :
                     /\ WellFormedAt(bytes, j)
                     /\ j + SequenceLength(bytes[j]) <= n
                          => (j + SequenceLength(bytes[j])) \in leads
             THEN Cardinality(leads)
                    + Cardinality({j \in leads :
                                     SequenceLength(bytes[j]) = 4})
             ELSE -1

\* text.length of the decoded content; a leading byte order mark is not part
\* of the text.
DecodedLength(bytes) ==
    IF Len(bytes) >= 3 /\ SubSeq(bytes, 1, 3) = <<239, 187, 191>>
    THEN DecodeFrom(bytes, 4)
    ELSE DecodeFrom(bytes, 1)


(***************************************************************************)
(* FileStats and ProjectStats (models/fileStats).                          *)
(***************************************************************************)
NoExtension == <<"N","o"," ","e","x","t","e","n","s","i","o","n">>

\* the extension is what follows the last '.'
getFileExtensionAfterDot(filePath) ==
    LET lastDot == lastIndexOf(filePath, ".")
    IN  IF lastDot = 0 THEN NoExtension
        ELSE SubSeq(filePath, lastDot + 1, Len(filePath))

getFileExtension(filePath) ==
    LET lastDot == lastIndexOf(filePath, ".")
    IN  IF lastDot = 0 THEN NoExtension
        ELSE SubSeq(filePath, lastDot, Len(filePath))

RECURSIVE Sum(_)
\* the sum of a sequence of numbers
Sum(nums) == IF nums = <<>> THEN 0 ELSE Head(nums) + Sum(Tail(nums))

\* filesByExtension.get(extension).push(file) on a Map kept as the sequence
\* of its entries in insertion order.
MapPush(map, extension, file) ==
    IF \E j \in 1..Len(map) : map[j].extension = extension
    THEN [j \in 1..Len(map) |->
            IF map[j].extension = extension
            THEN [map[j] EXCEPT !.files = Append(@, file)]
            ELSE map[j]]
    ELSE Append(map, [extension |-> extension, files |-> <<file>>])

RECURSIVE GroupByExtension(_, _)
GroupByExtension(fileStats, map) ==
    IF fileStats = <<>> THEN map
    ELSE GroupByExtension(Tail(fileStats),
             MapPush(map, getFileExtension(Head(fileStats).path),
                     Head(fileStats)))

\* the sizes of the binary files are not added up
buildProjectStatsTextSizes(fileStats, dateNow) ==
    [totalFiles |-> Len(fileStats),
     totalCharacters |->
         Sum([j \in 1..Len(fileStats) |-> fileStats[j].characterCount]),
     totalLengthInCm |->
         Sum([j \in 1..Len(fileStats) |-> fileStats[j].lengthInCm]),
     totalSizeInBytes |->
         Sum([j \in 1..Len(fileStats) |->
                 IF fileStats[j].isTextFile THEN fileStats[j].fileSize
                 ELSE 0]),
     filesByExtension |-> GroupByExtension(fileStats, <<>>),
     lastUpdated |-> dateNow]

buildProjectStats(fileStats, dateNow) ==
    [totalFiles |-> Len(fileStats),
     totalCharacters |->
         Sum([j \in 1..Len(fileStats) |-> fileStats[j].characterCount]),
     totalLengthInCm |->
         Sum([j \in 1..Len(fileStats) |-> fileStats[j].lengthInCm]),
     totalSizeInBytes |->
         Sum([j \in 1..Len(fileStats) |-> fileStats[j].fileSize]),
     filesByExtension |-> GroupByExtension(fileStats, <<>>),
     lastUpdated |-> dateNow]

(***************************************************************************)
(* CacheService.  cs is the state of the service: projectStatsCache,       *)
(* fileStatsCache and cacheTimestamp; dateNow is Date.now().               *)
(***************************************************************************)
EmptyFileCache == [p \in Paths |-> NULL]

NewCacheService ==
    [projectStatsCache |-> NULL,
     fileStatsCache |-> EmptyFileCache,
     cacheTimestamp |-> 0]

\* the age of the stamp is not looked at
isCacheValidForever(cs, dateNow) == cs.cacheTimestamp > 0

isCacheValid(cs, dateNow) ==
    /\ cs.cacheTimestamp > 0
    /\ (dateNow - cs.cacheTimestamp) < CACHE_DURATION

getCachedProjectStats(cs, dateNow) ==
    IF isCacheValid(cs, dateNow) THEN cs.projectStatsCache ELSE NULL

\* the stamp is not set
setCachedProjectStatsUnstamped(cs, stats, dateNow) ==
    [cs EXCEPT !.projectStatsCache = stats]

setCachedProjectStats(cs, stats, dateNow) ==
    [cs EXCEPT !.projectStatsCache = stats, !.cacheTimestamp = dateNow]

getCachedFileStats(cs, filePath) == cs.fileStatsCache[filePath]

setCachedFileStats(cs, filePath, stats) ==
    [cs EXCEPT !.fileStatsCache[filePath] = stats]

\* the cached file stats are kept
invalidateCacheOfProject(cs) ==
    [cs EXCEPT !.projectStatsCache = NULL, !.cacheTimestamp = 0]

invalidateCache(cs) ==
    [projectStatsCache |-> NULL,
     fileStatsCache |-> EmptyFileCache,
     cacheTimestamp |-> 0]

\* the project stats are kept
invalidateFileCacheOnly(cs, filePath) ==
    [cs EXCEPT !.fileStatsCache[filePath] = NULL]

invalidateFileCache(cs, filePath) ==
    [cs EXCEPT !.fileStatsCache[filePath] = NULL,
               !.projectStatsCache = NULL]

\* a file whose modification time is the cached one counts as modified
IsModifiedOrSame(cs, disk, file) ==
    IF disk[file].exists
    THEN cs.fileStatsCache[file] = NULL
           \/ disk[file].mtime >= cs.fileStatsCache[file].lastModified
    ELSE TRUE

\* lines 60-70: the stat of file threw, or file has no cached stats, or it
\* was modified after they were taken; disk is the state of the files
IsModified(cs, disk, file) ==
    IF disk[file].exists
    THEN cs.fileStatsCache[file] = NULL
           \/ disk[file].mtime > cs.fileStatsCache[file].lastModified
    ELSE TRUE

\* What getModifiedFiles returns when nothing happens between its awaits.
getModifiedFiles(cs, allFiles, disk) ==
    IF cs.projectStatsCache = NULL THEN allFiles
    ELSE SelectSeq(allFiles, LAMBDA file : IsModified(cs, disk, file))

RECURSIVE invalidateEach(_, _)
\* event.files.forEach(file => invalidateFileCache(file.fsPath))
invalidateEach(cs, files) ==
    IF files = <<>> THEN cs
    ELSE invalidateEach(invalidateFileCache(cs, Head(files)), Tail(files))

(***************************************************************************)
(* GitIgnoreService.                                                       *)
(***************************************************************************)
textExtensions == <<
    <<".","t","s">>,
    <<".","j","s">>,
    <<".","t","s","x">>,
    <<".","j","s","x">>,
    <<".","v","u","e">>,
    <<".","s","v","e","l","t","e">>,
    <<".","p","y">>,
    <<".","r","b">>,
    <<".","p","h","p">>,
    <<".","j","a","v","a">>,
    <<".","c">>,
    <<".","c","p","p">>,
    <<".","h">>,
    <<".","h","p","p">>,
    <<".","c","s">>,
    <<".","g","o">>,
    <<".","r","s">>,
    <<".","k","t">>,
    <<".","s","w","i","f","t">>,
    <<".","d","a","r","t">>,
    <<".","h","t","m","l">>,
    <<".","c","s","s">>,
    <<".","s","c","s","s">>,
    <<".","s","a","s","s">>,
    <<".","l","e","s","s">>,
    <<".","j","s","o","n">>,
    <<".","x","m","l">>,
    <<".","y","a","m","l">>,
    <<".","y","m","l">>,
    <<".","t","o","m","l">>,
    <<".","m","d">>,
    <<".","t","x","t">>,
    <<".","c","s","v">>,
    <<".","s","q","l">>,
    <<".","s","h">>,
    <<".","b","a","t">>,
    <<".","p","s","1">>>>

shouldIncludeFile(filePath) ==
    \E j \in 1..Len(textExtensions) :
        endsWith(toLowerCase(filePath), textExtensions[j])

defaultExcludes == <<
    <<"*","*","/","n","o","d","e","_","m","o","d","u","l","e","s","/","*","*">>,
    <<"*","*","/","d","i","s","t","/","*","*">>,
    <<"*","*","/","b","u","i","l","d","/","*","*">>,
    <<"*","*","/","o","u","t","/","*","*">>,
    <<"*","*","/",".","g","i","t","/","*","*">>,
    <<"*","*","/",".","*">>,
    <<"*","*","/","*",".","j","p","g">>,
    <<"*","*","/","*",".","j","p","e","g">>,
    <<"*","*","/","*",".","p","n","g">>,
    <<"*","*","/","*",".","g","i","f">>,
    <<"*","*","/","*",".","b","m","p">>,
    <<"*","*","/","*",".","i","c","o">>,
    <<"*","*","/","*",".","s","v","g">>,
    <<"*","*","/","*",".","w","e","b","p">>,
    <<"*","*","/","*",".","m","p","4">>,
    <<"*","*","/","*",".","a","v","i">>,
    <<"*","*","/","*",".","m","o","v">>,
    <<"*","*","/","*",".","w","m","v">>,
    <<"*","*","/","*",".","f","l","v">>,
    <<"*","*","/","*",".","w","e","b","m">>,
    <<"*","*","/","*",".","m","p","3">>,
    <<"*","*","/","*",".","w","a","v">>,
    <<"*","*","/","*",".","f","l","a","c">>,
    <<"*","*","/","*",".","a","a","c">>,
    <<"*","*","/","*",".","o","g","g">>,
    <<"*","*","/","*",".","z","i","p">>,
    <<"*","*","/","*",".","r","a","r">>,
    <<"*","*","/","*",".","7","z">>,
    <<"*","*","/","*",".","t","a","r">>,
    <<"*","*","/","*",".","g","z">>,
    <<"*","*","/","*",".","b","z","2">>,
    <<"*","*","/","*",".","e","x","e">>,
    <<"*","*","/","*",".","d","l","l">>,
    <<"*","*","/","*",".","s","o">>,
    <<"*","*","/","*",".","d","y","l","i","b">>,
    <<"*","*","/","*",".","p","d","f">>,
    <<"*","*","/","*",".","d","o","c">>,
    <<"*","*","/","*",".","d","o","c","x">>,
    <<"*","*","/","*",".","x","l","s">>,
    <<"*","*","/","*",".","x","l","s","x">>,
    <<"*","*","/","*",".","p","p","t">>,
    <<"*","*","/","*",".","p","p","t","x">>>>

\* The content of the .gitignore file of the workspace: a comment, a blank
\* line, a directory with blanks around it and a file pattern.
GitignoreText ==
    <<"#"," ","x","\n","\n"," ","t","/"," ","\n","*",".","l","o","g">>

WhiteSpace == {" ", "\t", "\r", "\n"}

RECURSIVE split(_, _)
\* content.split(sep): the pieces of content between occurrences of sep
split(content, sep) ==
    IF \E j \in 1..Len(content) : content[j] = sep
    THEN LET j == CHOOSE j \in 1..Len(content) :
                      /\ content[j] = sep
                      /\ \A h \in 1..(j - 1) : content[h] # sep
         IN  <<SubSeq(content, 1, j - 1)>>
                 \o split(SubSeq(content, j + 1, Len(content)), sep)
    ELSE <<content>>

RECURSIVE trim(_)
trim(line) ==
    IF line = <<>> THEN line
    ELSE IF Head(line) \in WhiteSpace THEN trim(Tail(line))
    ELSE IF line[Len(line)] \in WhiteSpace
         THEN trim(SubSeq(line, 1, Len(line) - 1))
    ELSE line

KeepLine(line) == line # <<>> /\ ~startsWith(line, <<"#">>)

\* The value of gitignorePatterns after loadGitignorePatterns; readable is
\* whether reading the .gitignore file succeeded.
loadGitignorePatterns(readable, content) ==
    IF readable
    THEN LET lines == split(content, "\n")
             trimmed == [j \in 1..Len(lines) |-> trim(lines[j])]
         IN  SelectSeq(trimmed, KeepLine)
    ELSE <<>>

gitignoreGlob(pattern) ==
    IF endsWith(pattern, <<"/">>)
    THEN <<"*","*","/">> \o pattern \o <<"*","*">>
    ELSE <<"*","*","/">> \o pattern

\* line 97: the built-in patterns, then the globs of the .gitignore lines
allPatterns(gitignorePatterns) ==
    defaultExcludes
        \o [j \in 1..Len(gitignorePatterns) |->
               gitignoreGlob(gitignorePatterns[j])]

RECURSIVE join(_, _)
\* parts.join(sep)
join(parts, sep) ==
    IF parts = <<>> THEN <<>>
    ELSE IF Len(parts) = 1 THEN Head(parts)
    ELSE Head(parts) \o <<sep>> \o join(Tail(parts), sep)

\* line 98: the patterns joined into the brace expression that is given to
\* findFiles
getExcludePatterns(gitignorePatterns) ==
    <<"{">> \o join(allPatterns(gitignorePatterns), ",") \o <<"}">>

\* The globs that findFiles excludes by when it is given a brace expression
\* of patterns that hold no braces: the pieces between its commas.
Alternatives(excludePatterns) ==
    split(SubSeq(excludePatterns, 2, Len(excludePatterns) - 1), ",")

\* 17.78 / 58 cm per character, in tenths of a centimetre.
DefaultCmPerCharacter == 3

None == [kind |-> "none"]
Pending == [kind |-> "pending"]
Error(msg) == [kind |-> "error", message |-> msg]
Stats(stats) == [kind |-> "stats", stats |-> stats]
\* a step of caller who, and a notification about the files arg
Op(name, who, ret) == [op |-> name, who |-> who, arg |-> <<>>, ret |-> ret]
OpArg(name, arg) == [op |-> name, who |-> 0, arg |-> arg, ret |-> None]

NoProbe ==
    [st |-> "none", size |-> 0, mtime |-> 0, relativePath |-> <<>>,
     result |-> NULL]

IdleRun ==
    [pc |-> "idle", excludePatterns |-> <<>>, textFiles |-> <<>>,
     filesToAnalyze |-> <<>>, k |-> 0, i |-> 0,
     probe |-> [p \in Paths |-> NoProbe], fileStats |-> <<>>,
     cmPerChar |-> 0]

Running(c) == run[c].pc # "idle"

\* What is on disk: the content of the m-th version of file p.  Both text
\* and binary versions occur for every file.
Versions == <<TextOne, Binary, TextTwo>>
ContentAt(p, m) ==
    Versions[((m + (IF p = PathA THEN 0 ELSE 2)) % Len(Versions)) + 1]

\* ProjectStatsProvider after construction, before it was given anything
NewProvider ==
    [pc |-> "new", fileStats |-> <<>>, projectStats |-> NULL,
     rootFiles |-> <<>>, folders |-> <<>>, folderStructure |-> <<>>,
     viewMode |-> "byFolder", fileTypeStats |-> <<>>, typeItems |-> <<>>,
     isLoading |-> FALSE, request |-> [q \in Requests |-> "idle"]]

InitHist ==
    [io |-> {}, probed |-> {},
     storedAt |-> 0, invalidated |-> FALSE,
     lastReturn |-> NULL, lastReturnAt |-> 0, lastStamp |-> 0,
     phase |-> "off", startCache |-> EmptyFileCache, allCleared |-> FALSE,
     stale |-> {}, unchanged |-> EmptyFileCache]

\* context.workspaceState has no value for a key
undefined == "undefined"

\* type FormatMode = 'fun' | 'metric' | 'us' | 'time' | 'size'
FormatMode == {"fun", "metric", "us", "time", "size"}

\* context.workspaceState.get(key, defaultValue) when value is kept for key
MementoGet(value, defaultValue) ==
    IF value = undefined THEN defaultValue ELSE value

\* howlong.statusBarFormatMode and howlong.treeFormatMode
FormatKeys == {"statusBarFormatMode", "treeFormatMode"}

\* FileInfoStatusBar, and ProjectStatsView with its provider, constructed
\* when context.workspaceState holds the values of stored
ConstructUi(stored) ==
    [statusBar |-> MementoGet(stored.statusBarFormatMode, "fun"),
     treeView |-> MementoGet(stored.treeFormatMode, "fun"),
     provider |-> MementoGet(stored.treeFormatMode, "fun"),
     workspaceState |-> stored,
     initial |-> [statusBarFormatMode |->
                      MementoGet(stored.statusBarFormatMode, "fun"),
                  treeFormatMode |->
                      MementoGet(stored.treeFormatMode, "fun")],
     calls |-> [key \in FormatKeys |-> 0]]

\* the status bar and the tree view in a workspace that is opened for the
\* first time
NewUi == ConstructUi([key \in FormatKeys |-> undefined])

\* no chunk loop over numbered files is running
NoLoop == [pc |-> "none", n |-> 0, i |-> 0, stat |-> <<>>, read |-> <<>>,
           done |-> <<>>]

\* A workspace folder with the files a.ts and b/c.md.
Workspace ==
    [p \in {PathA, PathB} |->
        [exists |-> TRUE, mtime |-> 1, content |-> ContentAt(p, 1)]]

\* The services after construction.
InitServices ==
    /\ gitignoreFile = [readable |-> TRUE, content |-> GitignoreText]
    /\ now = 1
    /\ ticks = 0
    /\ workspaceFolders = TRUE
    /\ cmPerCharacter = DefaultCmPerCharacter
    /\ cache = NewCacheService
    /\ isAnalyzing = FALSE
    /\ gitignore = [initialized |-> FALSE, gitignorePatterns |-> <<>>]
    /\ run = [c \in Callers |-> IdleRun]
    /\ lastOp = Op("init", 0, None)
    /\ hist = InitHist

Init ==
    /\ fs = Workspace
    /\ InitServices
    /\ view = NewProvider
    /\ loop = NoLoop
    /\ ui = NewUi

SeqToSet(seq) == {seq[j] : j \in 1..Len(seq)}

Min(a, b) == IF a < b THEN a ELSE b

(***************************************************************************)
(* History bookkeeping.                                                    *)
(***************************************************************************)
\* an invalidation or a change on disk: the last return is no longer the
\* one to compare the next call with
Dirty(h) == [h EXCEPT !.lastReturn = NULL, !.lastReturnAt = 0, !.lastStamp = 0]

\* the files whose probe the run in flight has completed
ProbedInFlight ==
    {p \in Paths : \E c \in Callers : run[c].probe[p].result # NULL}
        \cup UNION {{run[c].fileStats[j].path : j \in 1..Len(run[c].fileStats)} :
                       c \in Callers}

HistInvalidateFile(h) ==
    [Dirty(h) EXCEPT !.invalidated = TRUE,
                     !.stale = @ \cup ProbedInFlight,
                     !.phase = IF h.phase \in {"armed", "invalidated"}
                               THEN "invalidated" ELSE "off",
                     !.startCache = EmptyFileCache]

HistInvalidateAll(h) ==
    [Dirty(h) EXCEPT !.invalidated = TRUE, !.phase = "off",
                     !.stale = @ \cup ProbedInFlight,
                     !.startCache = EmptyFileCache,
                     !.allCleared = (@ \/ \A c \in Callers : ~Running(c))]

HistRunStart(h) ==
    [h EXCEPT !.io = {}, !.probed = {}, !.unchanged = EmptyFileCache,
              !.phase = IF h.phase = "invalidated" THEN "running" ELSE "off",
              !.startCache = IF h.phase = "invalidated"
                             THEN cache.fileStatsCache ELSE EmptyFileCache]

HistReturn(h, stats, stamp) ==
    [h EXCEPT !.io = {}, !.probed = {}, !.stale = {},
              !.unchanged = EmptyFileCache, !.lastReturn = stats,
              !.lastReturnAt = now, !.lastStamp = stamp]

HistStore(h, r, cs) ==
    [h EXCEPT !.storedAt = now, !.invalidated = FALSE, !.allCleared = FALSE,
              !.phase = IF h.phase = "running" THEN "done"
                        ELSE IF \A p \in SeqToSet(r.textFiles) :
                                   cs.fileStatsCache[p] # NULL
                             THEN "armed" ELSE "off",
              !.startCache = IF h.phase = "running" THEN h.startCache
                             ELSE EmptyFileCache]

(***************************************************************************)
(* FileAnalysisService.analyzeWorkspace.  The code between two awaits of   *)
(* real I/O is one step.  The operators below take the values r, cs and h  *)
(* that the run record of caller c, the cache and the history have reached *)
(* in the current step, and complete the step.                             *)
(***************************************************************************)
Continue(c, r, cs, h, op) ==
    /\ run' = [run EXCEPT ![c] = r]
    /\ cache' = cs
    /\ hist' = h
    /\ lastOp' = op
    /\ UNCHANGED isAnalyzing

\* catch (error) { throw error } finally { this.isAnalyzing = false }
\* the flag is cleared on the way out of a successful run only
ThrowWithoutFinally(c, step, msg) ==
    /\ run' = [run EXCEPT ![c] = IdleRun]
    /\ hist' = [hist EXCEPT !.io = {}, !.probed = {}, !.stale = {},
                             !.unchanged = EmptyFileCache]
    /\ lastOp' = Op(step, c, Error(msg))
    /\ UNCHANGED <<cache, isAnalyzing>>

\* step is "call" when the call throws before its first await, "settle"
\* when a pending call does
Throw(c, step, msg) ==
    /\ isAnalyzing' = FALSE
    /\ run' = [run EXCEPT ![c] = IdleRun]
    /\ cache' = cache
    /\ hist' = [hist EXCEPT !.io = {}, !.probed = {}, !.stale = {},
                             !.unchanged = EmptyFileCache]
    /\ lastOp' = Op(step, c, Error(msg))

RECURSIVE CachedUnchanged(_, _, _)
\* the cached stats of the files that are not in filesToAnalyze
CachedUnchanged(textFiles, filesToAnalyze, cs) ==
    IF textFiles = <<>> THEN <<>>
    ELSE LET file == Head(textFiles)
             rest == CachedUnchanged(Tail(textFiles), filesToAnalyze, cs)
         IN  IF file \notin SeqToSet(filesToAnalyze)
                /\ getCachedFileStats(cs, file) # NULL
             THEN <<getCachedFileStats(cs, file)>> \o rest
             ELSE rest

\* add the cached stats, build and cache the project stats, return them
Finish(c, r, cs, h) ==
    LET fileStats == r.fileStats
                       \o CachedUnchanged(r.textFiles, r.filesToAnalyze, cs)
        projectStats == buildProjectStats(fileStats, now)
        stored == setCachedProjectStats(cs, projectStats, now)
    IN  /\ isAnalyzing' = FALSE
        /\ run' = [run EXCEPT ![c] = IdleRun]
        /\ cache' = stored
        /\ hist' = HistReturn(HistStore(h, r, stored), projectStats,
                              stored.cacheTimestamp)
        /\ lastOp' = Op("settle", c, Stats(projectStats))

\* the files of the chunk that starts at index i (0-based)
Chunk(r) ==
    SubSeq(r.filesToAnalyze, r.i + 1,
           Min(r.i + chunkSize, Len(r.filesToAnalyze)))

\* the head of the loop as if the loop were started again, with no results,
\* for as long as a file of the run has no record in the file cache
StartChunkUntilCached(c, r, cs, h) ==
    LET again == r.i >= Len(r.filesToAnalyze)
                   /\ \E p \in SeqToSet(r.filesToAnalyze) :
                          cs.fileStatsCache[p] = NULL /\ fs[p].exists
        r2 == IF again THEN [r EXCEPT !.i = 0, !.fileStats = <<>>] ELSE r
    IN  IF r2.i < Len(r2.filesToAnalyze)
        THEN Continue(c,
                 [r2 EXCEPT !.pc = "chunk",
                            !.probe = [p \in Paths |->
                                         IF p \in SeqToSet(Chunk(r2))
                                         THEN [NoProbe EXCEPT !.st = "stat"]
                                         ELSE NoProbe]],
                 cs,
                 [h EXCEPT !.probed = @ \cup SeqToSet(Chunk(r2))],
                 Op("await", 0, None))
        ELSE Finish(c, r2, cs, h)

\* the head of the chunk loop: call analyzeFile on every file of the next
\* chunk, or leave the loop
StartChunk(c, r, cs, h) ==
    IF r.i < Len(r.filesToAnalyze)
    THEN Continue(c,
             [r EXCEPT !.pc = "chunk",
                       !.probe = [p \in Paths |->
                                    IF p \in SeqToSet(Chunk(r))
                                    THEN [NoProbe EXCEPT !.st = "stat"]
                                    ELSE NoProbe]],
             cs,
             [h EXCEPT !.probed = @ \cup SeqToSet(Chunk(r))],
             Op("await", 0, None))
    ELSE Finish(c, r, cs, h)

NotNull(x) == x # NULL

\* Promise.all has resolved: keep the results that are not null, go on
ChunkDone(c, r, cs, h) ==
    LET chunk == Chunk(r)
        chunkResults == [j \in 1..Len(chunk) |-> r.probe[chunk[j]].result]
    IN  StartChunk(c,
            [r EXCEPT !.fileStats = @ \o SelectSeq(chunkResults, NotNull),
                      !.i = @ + chunkSize,
                      !.probe = [p \in Paths |-> NoProbe]],
            cs, h)

\* after a probe of the chunk has ended
ProbeEnded(c, r, cs, h, op) ==
    IF \A p \in SeqToSet(Chunk(r)) : r.probe[p].st = "done"
    THEN ChunkDone(c, r, cs, h)
    ELSE Continue(c, r, cs, h, op)

\* getModifiedFiles has returned: read the scale factor, enter the loop
AfterModified(c, r, cs, h) ==
    StartChunk(c,
        [r EXCEPT !.pc = "chunk", !.fileStats = <<>>, !.i = 0,
                  !.cmPerChar = cmPerCharacter],
        cs, h)

\* the guard never sees a run in flight
InFlightGuardNever == FALSE

\* this.isAnalyzing at line 54
InFlightGuard == isAnalyzing

\* the rejection is thrown inside the try block, whose finally clause
\* clears the flag
RejectInsideTry(c) ==
    /\ lastOp' = Op("call", c, Error("Analysis already in progress"))
    /\ isAnalyzing' = FALSE
    /\ UNCHANGED <<envVars, cache, gitignore, run, hist>>

\* line 55: the call is rejected
Reject(c) ==
    /\ lastOp' = Op("call", c, Error("Analysis already in progress"))
    /\ UNCHANGED <<envVars, cache, isAnalyzing, gitignore, run, hist>>

\* returning the memoized project stats renews their stamp
CacheHitRenews(c) ==
    /\ lastOp' = Op("call", c, Stats(getCachedProjectStats(cache, now)))
    /\ hist' = HistReturn(hist, getCachedProjectStats(cache, now), now)
    /\ cache' = [cache EXCEPT !.cacheTimestamp = now]
    /\ UNCHANGED <<envVars, isAnalyzing, gitignore, run>>

\* lines 58-63: the memoized project stats are returned
CacheHit(c) ==
    /\ lastOp' = Op("call", c, Stats(getCachedProjectStats(cache, now)))
    /\ hist' = HistReturn(hist, getCachedProjectStats(cache, now),
                          cache.cacheTimestamp)
    /\ UNCHANGED <<envVars, cache, isAnalyzing, gitignore, run>>

\* the run as if the workspace folder were looked up outside the try block:
\* the flag that line 65 set is not cleared by the throw
StartRunGuardLeftSet(c) ==
    IF workspaceFolders
    THEN /\ isAnalyzing' = TRUE
         /\ run' = [run EXCEPT ![c] = [IdleRun EXCEPT !.pc = "patterns"]]
         /\ hist' = HistRunStart(hist)
         /\ lastOp' = Op("call", c, Pending)
         /\ UNCHANGED <<envVars, cache, gitignore>>
    ELSE /\ isAnalyzing' = TRUE
         /\ lastOp' = Op("call", c, Error("No workspace folder found"))
         /\ UNCHANGED <<envVars, cache, gitignore, run, hist>>

\* lines 65-76: the run starts and awaits getExcludePatterns
StartRun(c) ==
    IF workspaceFolders
    THEN /\ isAnalyzing' = TRUE
         /\ run' = [run EXCEPT ![c] = [IdleRun EXCEPT !.pc = "patterns"]]
         /\ hist' = HistRunStart(hist)
         /\ lastOp' = Op("call", c, Pending)
         /\ UNCHANGED <<envVars, cache, gitignore>>
    ELSE /\ Throw(c, "call", "No workspace folder found")
         /\ UNCHANGED <<envVars, gitignore>>

\* A call takes the lowest free call slot.
analyzeWorkspace(c) ==
    /\ run[c].pc = "idle"
    /\ \A c2 \in Callers : c2 < c => run[c2].pc # "idle"
    /\ IF InFlightGuard THEN Reject(c)
       ELSE IF getCachedProjectStats(cache, now) # NULL THEN CacheHit(c)
       ELSE StartRun(c)

\* getExcludePatterns as if loadGitignorePatterns had no catch: the call
\* rejects when the .gitignore file cannot be read, and so does the run.
ExcludePatternsDoneThrows(c) ==
    /\ run[c].pc = "patterns"
    /\ IF ~gitignore.initialized /\ ~gitignoreFile.readable
       THEN /\ Throw(c, "settle", "ENOENT: .gitignore")
            /\ UNCHANGED gitignore
       ELSE /\ gitignore' =
                   [initialized |-> TRUE,
                    gitignorePatterns |->
                        IF gitignore.initialized
                        THEN gitignore.gitignorePatterns
                        ELSE loadGitignorePatterns(gitignoreFile.readable,
                                                   gitignoreFile.content)]
            /\ Continue(c,
                        [run[c] EXCEPT !.pc = "findFiles",
                                       !.excludePatterns =
                                           getExcludePatterns(
                                               gitignore'.gitignorePatterns)],
                        cache,
                        [hist EXCEPT !.io = @ \cup {[k |-> "patterns",
                                                     p |-> <<>>]}],
                        Op("await", 0, None))
    /\ UNCHANGED envVars

\* getExcludePatterns resolves; the first time it reads the .gitignore file.
\* Then findFiles is called.
ExcludePatternsDone(c) ==
    /\ run[c].pc = "patterns"
    /\ gitignore' =
           IF gitignore.initialized THEN gitignore
           ELSE [initialized |-> TRUE,
                 gitignorePatterns |->
                     loadGitignorePatterns(gitignoreFile.readable,
                                           gitignoreFile.content)]
    /\ Continue(c,
                [run[c] EXCEPT !.pc = "findFiles",
                               !.excludePatterns =
                                   getExcludePatterns(
                                       gitignore'.gitignorePatterns)],
                cache,
                [hist EXCEPT !.io = @ \cup {[k |-> "patterns", p |-> <<>>]}],
                Op("await", 0, None))
    /\ UNCHANGED envVars

\* vscode.workspace.findFiles('**/*', excludePatterns): the files on disk.
\* No path of Paths matches one of the exclude patterns.
findFiles == SelectSeq(PathOrder, LAMBDA p : fs[p].exists)

\* findFiles resolves; the files are filtered and getModifiedFiles is
\* called, which returns all of them when no project stats are cached.
\* excludePatterns is not read again.
FindFilesDone(c) ==
    /\ run[c].pc = "findFiles"
    /\ LET textFiles == SelectSeq(findFiles, shouldIncludeFile)
           h == [hist EXCEPT !.io = @ \cup {[k |-> "findFiles", p |-> <<>>]}]
           r == [run[c] EXCEPT !.textFiles = textFiles,
                               !.excludePatterns = <<>>]
       IN  IF cache.projectStatsCache = NULL
           THEN AfterModified(c, [r EXCEPT !.filesToAnalyze = textFiles],
                              cache, h)
           ELSE IF textFiles = <<>>
           THEN AfterModified(c, r, cache, h)
           ELSE Continue(c, [r EXCEPT !.pc = "modified", !.k = 0], cache, h,
                         Op("await", 0, None))
    /\ UNCHANGED <<envVars, gitignore>>

\* findFiles rejects
FindFilesFails(c) ==
    /\ run[c].pc = "findFiles"
    /\ Throw(c, "settle", "findFiles failed")
    /\ UNCHANGED <<envVars, gitignore>>

\* getModifiedFiles, one turn of its loop: the stat of the next file resolves
\* or rejects
ModifiedStat(c) ==
    /\ run[c].pc = "modified"
    /\ LET r == run[c]
           file == r.textFiles[r.k + 1]
           r2 == [r EXCEPT !.k = @ + 1,
                           !.filesToAnalyze =
                               IF IsModified(cache, fs, file)
                               THEN Append(@, file) ELSE @]
           h == [hist EXCEPT !.io = @ \cup {[k |-> "stat", p |-> file]},
                             !.unchanged[file] =
                                 IF IsModified(cache, fs, file) THEN @
                                 ELSE cache.fileStatsCache[file]]
       IN  IF r2.k = Len(r2.textFiles)
           THEN AfterModified(c, r2, cache, h)
           ELSE Continue(c, r2, cache, h, Op("await", 0, None))
    /\ UNCHANGED <<envVars, gitignore>>

(***************************************************************************)
(* FileAnalysisService.analyzeFile, one call per file of the chunk.        *)
(***************************************************************************)
\* a file is text when its extension is one of the text extensions
FileStatsOfByExtension(filePath, relativePath, size, mtime, length, cmPerChar) ==
    LET isTextFile == \E j \in 1..Len(textExtensions) :
                          endsWith(toLowerCase(filePath), textExtensions[j])
        characterCount == IF length >= 0 THEN length ELSE 0
    IN  [path |-> filePath,
         relativePath |-> relativePath,
         characterCount |-> characterCount,
         lengthInCm |-> IF isTextFile THEN characterCount * cmPerChar ELSE 0,
         fileSize |-> size,
         lastModified |-> mtime,
         isTextFile |-> isTextFile]

\* lines 150-175: the stats of a file from its stat, its relative path and
\* what was read of it; length is text.length, or -1 when the read or the
\* decoding threw
FileStatsOf(filePath, relativePath, size, mtime, length, cmPerChar) ==
    LET isTextFile == length >= 0
        characterCount == IF isTextFile THEN length ELSE 0
    IN  [path |-> filePath,
         relativePath |-> relativePath,
         characterCount |-> characterCount,
         lengthInCm |-> IF isTextFile THEN characterCount * cmPerChar ELSE 0,
         fileSize |-> size,
         lastModified |-> mtime,
         isTextFile |-> isTextFile]

\* a stat that rejects makes the run throw
ProbeStatThrows(c, p) ==
    /\ run[c].pc = "chunk"
    /\ run[c].probe[p].st = "stat"
    /\ LET h == [hist EXCEPT !.io = @ \cup {[k |-> "stat", p |-> p]}]
           op == Op("await", 0, None)
       IN  IF fs[p].exists
           THEN Continue(c,
                    [run[c] EXCEPT !.probe[p] =
                        [st |-> "read", size |-> Len(fs[p].content),
                         mtime |-> fs[p].mtime,
                         relativePath |-> IF workspaceFolders
                                          THEN asRelativePath(p) ELSE p,
                         result |-> NULL]],
                    cache, h, op)
           ELSE Throw(c, "settle", "stat failed")
    /\ UNCHANGED <<envVars, gitignore>>

\* lines 142-147: the stat resolves, the relative path is taken and readFile
\* is called; or the stat rejects, and analyzeFile returns null
ProbeStat(c, p) ==
    /\ run[c].pc = "chunk"
    /\ run[c].probe[p].st = "stat"
    /\ LET h == [hist EXCEPT !.io = @ \cup {[k |-> "stat", p |-> p]}]
           op == Op("await", 0, None)
       IN  IF fs[p].exists
           THEN Continue(c,
                    [run[c] EXCEPT !.probe[p] =
                        [st |-> "read", size |-> Len(fs[p].content),
                         mtime |-> fs[p].mtime,
                         relativePath |-> IF workspaceFolders
                                          THEN asRelativePath(p) ELSE p,
                         result |-> NULL]],
                    cache, h, op)
           ELSE ProbeEnded(c,
                    [run[c] EXCEPT !.probe[p] =
                        [NoProbe EXCEPT !.st = "done"]],
                    cache, h, op)
    /\ UNCHANGED <<envVars, gitignore>>

\* lines 154-180: readFile resolves or rejects; the stats are built, cached
\* and returned
ProbeRead(c, p) ==
    /\ run[c].pc = "chunk"
    /\ run[c].probe[p].st = "read"
    /\ LET pr == run[c].probe[p]
           length == IF fs[p].exists THEN DecodedLength(fs[p].content)
                     ELSE -1
           fileStats == FileStatsOf(p, pr.relativePath, pr.size, pr.mtime,
                                    length, run[c].cmPerChar)
       IN  ProbeEnded(c,
               [run[c] EXCEPT !.probe[p] =
                   [pr EXCEPT !.st = "done", !.result = fileStats]],
               setCachedFileStats(cache, p, fileStats),
               [hist EXCEPT !.io = @ \cup {[k |-> "read", p |-> p]}],
               Op("await", 0, None))
    /\ UNCHANGED <<envVars, gitignore>>

(***************************************************************************)
(* The notifications of the editor (setupFileWatchers) and the             *)
(* invalidateCache command.                                                *)
(***************************************************************************)
Notify(name, arg, cs, h) ==
    /\ cache' = cs
    /\ hist' = h
    /\ lastOp' = OpArg(name, arg)
    /\ UNCHANGED <<envVars, isAnalyzing, gitignore, run>>

onDidChangeTextDocument(p) ==
    Notify("onDidChangeTextDocument", <<p>>, invalidateFileCache(cache, p),
           HistInvalidateFile(hist))

onDidCreateFiles ==
    Notify("onDidCreateFiles", <<>>, invalidateCache(cache),
           HistInvalidateAll(hist))

\* the deleted files are invalidated one by one and nothing else is
onDidDeleteFilesOneByOne(files) ==
    Notify("onDidDeleteFiles", files, invalidateEach(cache, files),
           HistInvalidateFile(hist))

onDidDeleteFiles(files) ==
    Notify("onDidDeleteFiles", files,
           invalidateCache(invalidateEach(cache, files)),
           HistInvalidateAll(hist))

invalidateCacheCommand ==
    Notify("invalidateCache", <<>>, invalidateCache(cache),
           HistInvalidateAll(hist))

(***************************************************************************)
(* The environment: the clock, the disk, the workspace folders.            *)
(***************************************************************************)
Env ==
    /\ lastOp' = Op("environment", 0, None)
    /\ UNCHANGED <<cache, isAnalyzing, gitignore, run, view, loop, ui>>

\* The clock advances to one millisecond before the end of the freshness
\* window, then to its end, and so on.
TickSteps == <<CACHE_DURATION - 1, 1>>

Tick ==
    /\ ticks < MaxTicks
    /\ now' = now + TickSteps[(ticks % Len(TickSteps)) + 1]
    /\ ticks' = ticks + 1
    /\ hist' = hist
    /\ Env
    /\ UNCHANGED <<fs, gitignoreFile, workspaceFolders, cmPerCharacter>>

FsWrite(p) ==
    /\ fs[p].exists
    /\ fs[p].mtime < MaxMtime
    /\ fs' = [fs EXCEPT ![p].mtime = @ + 1,
                        ![p].content = ContentAt(p, fs[p].mtime + 1)]
    /\ hist' = Dirty(hist)
    /\ Env
    /\ UNCHANGED <<gitignoreFile, now, ticks, workspaceFolders, cmPerCharacter>>

FsDelete(p) ==
    /\ fs[p].exists
    /\ fs' = [fs EXCEPT ![p].exists = FALSE]
    /\ hist' = Dirty(hist)
    /\ Env
    /\ UNCHANGED <<gitignoreFile, now, ticks, workspaceFolders, cmPerCharacter>>

FsCreate(p) ==
    /\ ~fs[p].exists
    /\ fs[p].mtime < MaxMtime
    /\ fs' = [fs EXCEPT ![p] = [exists |-> TRUE, mtime |-> @.mtime + 1,
                                content |-> ContentAt(p, @.mtime + 1)]]
    /\ hist' = Dirty(hist)
    /\ Env
    /\ UNCHANGED <<gitignoreFile, now, ticks, workspaceFolders, cmPerCharacter>>

WorkspaceFoldersChange ==
    /\ workspaceFolders' = ~workspaceFolders
    /\ hist' = hist
    /\ Env
    /\ UNCHANGED <<fs, gitignoreFile, now, ticks, cmPerCharacter>>

\* the file stats in the extension mapping of project stats, in order
RECURSIVE Flatten(_)
Flatten(map) ==
    IF map = <<>> THEN <<>> ELSE Head(map).files \o Flatten(Tail(map))

RecordsOf(stats) == SeqToSet(Flatten(stats.filesByExtension))

(***************************************************************************)
(* ProjectStatsProvider: the folder view.  A Map is the sequence of its    *)
(* values in insertion order; a folder is referred to by its path.         *)
(***************************************************************************)
\* Array.prototype.sort, which is stable: before[i][j] says that the compare
\* function is negative on seq[i] and seq[j]; seq[i] comes before seq[j]
\* then, or when neither is before the other and i < j
SortBy(seq, before) ==
    LET n == Len(seq)
        rank(i) == Cardinality({j \in 1..n :
                        \/ before[j][i]
                        \/ ~before[i][j] /\ j < i}) + 1
    IN  [r \in 1..n |-> seq[CHOOSE i \in 1..n : rank(i) = r]]

\* The order of localeCompare on the characters of the file names of the
\* model: punctuation before letters.
Collation == <<"_", "-", ".">> \o LowerCase

CollationRank(ch) ==
    IF \E i \in 1..Len(Collation) : Collation[i] = ch
    THEN CHOOSE i \in 1..Len(Collation) : Collation[i] = ch
    ELSE 0

RECURSIVE localeCompare(_, _)
\* a.localeCompare(b): negative, zero or positive
localeCompare(a, b) ==
    IF a = <<>> THEN (IF b = <<>> THEN 0 ELSE -1)
    ELSE IF b = <<>> THEN 1
    ELSE IF CollationRank(Head(a)) # CollationRank(Head(b))
         THEN CollationRank(Head(a)) - CollationRank(Head(b))
    ELSE localeCompare(Tail(a), Tail(b))

MapHas(map, path) == \E j \in 1..Len(map) : map[j].path = path
MapGet(map, path) == map[CHOOSE j \in 1..Len(map) : map[j].path = path]

\* lines 265-274: a folder without files
\* a new folder of the map as if it were counted among its own files
NewFolderCounted(currentPath, folderName) ==
    [path |-> currentPath, name |-> folderName, totalFiles |-> 1,
     totalCharacters |-> 0, totalLengthInCm |-> 0, totalSizeInBytes |-> 0,
     files |-> <<>>, subfolders |-> <<>>]

NewFolder(currentPath, folderName) ==
    [path |-> currentPath, name |-> folderName, totalFiles |-> 0,
     totalCharacters |-> 0, totalLengthInCm |-> 0, totalSizeInBytes |-> 0,
     files |-> <<>>, subfolders |-> <<>>]

RECURSIVE EnsureFolders(_, _, _)
\* lines 260-276: the loop over the folders on the path of a file, from
\* index i (0-based) on
EnsureFolders(folderMap, pathParts, i) ==
    IF i >= Len(pathParts) - 1 THEN folderMap
    ELSE LET currentPath == join(SubSeq(pathParts, 1, i + 1), "/")
             folderName == pathParts[i + 1]
         IN  EnsureFolders(
                 IF MapHas(folderMap, currentPath) THEN folderMap
                 ELSE Append(folderMap, NewFolder(currentPath, folderName)),
                 pathParts, i + 1)

\* the file is added to the topmost folder on its path
AddToTopFolder(folderMap, file, pathParts) ==
    [j \in 1..Len(folderMap) |->
        IF folderMap[j].path = pathParts[1]
        THEN [folderMap[j] EXCEPT
                !.files = Append(@, file),
                !.totalFiles = @ + 1,
                !.totalCharacters = @ + file.characterCount,
                !.totalLengthInCm = @ + file.lengthInCm,
                !.totalSizeInBytes = @ + file.fileSize]
        ELSE folderMap[j]]

\* lines 279-287: the file is added to the folder it is in
AddToParent(folderMap, file, pathParts) ==
    LET parentPath == join(SubSeq(pathParts, 1, Len(pathParts) - 1), "/")
    IN  IF parentPath # <<>> /\ MapHas(folderMap, parentPath)
        THEN [j \in 1..Len(folderMap) |->
                IF folderMap[j].path = parentPath
                THEN [folderMap[j] EXCEPT
                        !.files = Append(@, file),
                        !.totalFiles = @ + 1,
                        !.totalCharacters = @ + file.characterCount,
                        !.totalLengthInCm = @ + file.lengthInCm,
                        !.totalSizeInBytes = @ + file.fileSize]
                ELSE folderMap[j]]
        ELSE folderMap

RECURSIVE PlaceFiles(_, _)
\* lines 252-289: the loop over the files; st is folderMap and rootFiles
PlaceFiles(files, st) ==
    IF files = <<>> THEN st
    ELSE LET file == Head(files)
             pathParts == split(file.relativePath, "/")
         IN  PlaceFiles(Tail(files),
                 IF Len(pathParts) = 1
                 THEN [st EXCEPT !.rootFiles = Append(@, file)]
                 ELSE [st EXCEPT !.folderMap =
                          AddToParent(EnsureFolders(@, pathParts, 0),
                                      file, pathParts)])

Depth(path) == Len(split(path, "/"))

\* the sort goes from the shallowest folder to the deepest
sortedFoldersShallowFirst(folderMap) ==
    LET sorted == SortBy(folderMap,
                         [i \in 1..Len(folderMap) |->
                            [j \in 1..Len(folderMap) |->
                               Depth(folderMap[i].path)
                                 < Depth(folderMap[j].path)]])
    IN  [j \in 1..Len(sorted) |-> sorted[j].path]

\* lines 295-299: the paths of the folders, the deepest first
sortedFolders(folderMap) ==
    LET sorted == SortBy(folderMap,
                         [i \in 1..Len(folderMap) |->
                            [j \in 1..Len(folderMap) |->
                               Depth(folderMap[i].path)
                                 > Depth(folderMap[j].path)]])
    IN  [j \in 1..Len(sorted) |-> sorted[j].path]

RECURSIVE LinkFolders(_, _)
\* lines 301-319: the loop over the sorted folders; st is folderMap and
\* rootFolders.  The totals added to the parent are those that the folder
\* has when its turn comes.
LinkFolders(sorted, st) ==
    IF sorted = <<>> THEN st
    ELSE LET path == Head(sorted)
             map == st.folderMap
             folder == MapGet(map, path)
             pathParts == split(path, "/")
             parentPath == join(SubSeq(pathParts, 1, Len(pathParts) - 1),
                                "/")
             linked == [j \in 1..Len(map) |->
                          IF map[j].path = parentPath
                          THEN [map[j] EXCEPT
                                  !.subfolders = Append(@, path),
                                  !.totalFiles = @ + folder.totalFiles,
                                  !.totalCharacters =
                                      @ + folder.totalCharacters,
                                  !.totalLengthInCm =
                                      @ + folder.totalLengthInCm,
                                  !.totalSizeInBytes =
                                      @ + folder.totalSizeInBytes]
                          ELSE map[j]]
         IN  LinkFolders(Tail(sorted),
                 IF Len(pathParts) = 1
                 THEN [st EXCEPT !.rootFolders = Append(@, path)]
                 ELSE IF MapHas(map, parentPath)
                 THEN [st EXCEPT !.folderMap = linked]
                 ELSE st)

\* the root folders are sorted by their names as they are written
buildFolderStructureCaseSensitive(files) ==
    LET placed == PlaceFiles(files, [folderMap |-> <<>>, rootFiles |-> <<>>])
        linked == LinkFolders(sortedFolders(placed.folderMap),
                              [folderMap |-> placed.folderMap,
                               rootFolders |-> <<>>])
        name(j) == MapGet(linked.folderMap, linked.rootFolders[j]).name
        byName == [i \in 1..Len(linked.rootFolders) |->
                     [j \in 1..Len(linked.rootFolders) |->
                        localeCompare(name(i), name(j)) < 0]]
    IN  [rootFiles |-> placed.rootFiles,
         folderStructure |-> SortBy(linked.rootFolders, byName),
         folders |-> linked.folderMap]

\* rootFiles, the paths of the root folders sorted by name, and the folders
buildFolderStructure(files) ==
    LET placed == PlaceFiles(files, [folderMap |-> <<>>, rootFiles |-> <<>>])
        linked == LinkFolders(sortedFolders(placed.folderMap),
                              [folderMap |-> placed.folderMap,
                               rootFolders |-> <<>>])
        name(j) == MapGet(linked.folderMap, linked.rootFolders[j]).name
        byName == [i \in 1..Len(linked.rootFolders) |->
                     [j \in 1..Len(linked.rootFolders) |->
                        localeCompare(toLowerCase(name(i)),
                                      toLowerCase(name(j))) < 0]]
    IN  [rootFiles |-> placed.rootFiles,
         folderStructure |-> SortBy(linked.rootFolders, byName),
         folders |-> linked.folderMap]

\* relativePath.split('/').pop() || relativePath
FileName(file) ==
    LET parts == split(file.relativePath, "/")
    IN  IF parts[Len(parts)] # <<>> THEN parts[Len(parts)]
        ELSE file.relativePath

\* the folder view as if it were built from the text files alone
buildFolderViewOfTextFiles(v) ==
    LET allFiles == SelectSeq(Flatten(v.projectStats.filesByExtension),
                              LAMBDA file : file.isTextFile)
        built == buildFolderStructure(allFiles)
        byName == [i \in 1..Len(built.rootFiles) |->
                     [j \in 1..Len(built.rootFiles) |->
                        localeCompare(toLowerCase(FileName(built.rootFiles[i])),
                                      toLowerCase(FileName(built.rootFiles[j])))
                          < 0]]
    IN  [v EXCEPT !.pc = "built",
                  !.rootFiles = SortBy(built.rootFiles, byName),
                  !.folderStructure = built.folderStructure,
                  !.folders = built.folders]

\* buildTreeItems in the view mode byFolder: lines 199-221, the folder view
\* of the project stats of provider v
buildFolderView(v) ==
    LET allFiles == Flatten(v.projectStats.filesByExtension)
        built == buildFolderStructure(allFiles)
        byName == [i \in 1..Len(built.rootFiles) |->
                     [j \in 1..Len(built.rootFiles) |->
                        localeCompare(toLowerCase(FileName(built.rootFiles[i])),
                                      toLowerCase(FileName(built.rootFiles[j])))
                          < 0]]
    IN  [v EXCEPT !.pc = "built",
                  !.rootFiles = SortBy(built.rootFiles, byName),
                  !.folderStructure = built.folderStructure,
                  !.folders = built.folders]

(***************************************************************************)
(* The view by file type.  The files of a FileTypeStats are the array that *)
(* projectStats.filesByExtension holds under its extension, the same       *)
(* object: the model keeps the key, and a sort of the array is a sort of   *)
(* the entry of the Map.                                                   *)
(***************************************************************************)
\* files.sort((a, b) => b.lengthInCm - a.lengthInCm), which sorts the array
\* it is called on
sortByLengthDesc(files) ==
    SortBy(files, [i \in 1..Len(files) |->
                     [j \in 1..Len(files) |->
                        files[j].lengthInCm - files[i].lengthInCm < 0]])

\* a / b, as the fraction it is
Divide(a, b) == [num |-> a, den |-> b]

\* lines 220-231: the FileTypeStats of one entry of filesByExtension
FileTypeStatsOf(entry) ==
    LET files == entry.files
        totalChars == Sum([j \in 1..Len(files) |-> files[j].characterCount])
        totalLength == Sum([j \in 1..Len(files) |-> files[j].lengthInCm])
    IN  [extension |-> entry.extension,
         fileCount |-> Len(files),
         totalCharacters |-> totalChars,
         totalLengthInCm |-> totalLength,
         averageLengthInCm |-> Divide(totalLength, Len(files)),
         files |-> entry.extension]

\* the stats in the order of the Map
getFileTypeStatsUnsorted(projectStats) ==
    LET map == projectStats.filesByExtension
    IN  [projectStats |->
             [projectStats EXCEPT !.filesByExtension =
                 [j \in 1..Len(map) |->
                     [map[j] EXCEPT
                         !.files = sortByLengthDesc(@)]]],
         stats |-> [j \in 1..Len(map) |-> FileTypeStatsOf(map[j])]]

\* lines 216-234: what getFileTypeStats returns, and what it leaves of the
\* project stats it was given
getFileTypeStats(projectStats) ==
    LET map == projectStats.filesByExtension
        stats == [j \in 1..Len(map) |-> FileTypeStatsOf(map[j])]
    IN  [projectStats |->
             [projectStats EXCEPT !.filesByExtension =
                 [j \in 1..Len(map) |->
                     [map[j] EXCEPT
                         !.files = sortByLengthDesc(@)]]],
         stats |->
             SortBy(stats,
                 [i \in 1..Len(stats) |->
                    [j \in 1..Len(stats) |->
                       stats[j].totalLengthInCm - stats[i].totalLengthInCm
                         < 0]])]

\* typeStats.files, through the reference
FilesOf(projectStats, typeStats) ==
    LET map == projectStats.filesByExtension
    IN  map[CHOOSE j \in 1..Len(map) :
                map[j].extension = typeStats.files].files

\* lines 150-154: typeStats.files.sort by lower-case file name
sortByName(files) ==
    SortBy(files, [i \in 1..Len(files) |->
                     [j \in 1..Len(files) |->
                        localeCompare(toLowerCase(FileName(files[i])),
                                      toLowerCase(FileName(files[j]))) < 0]])

\* lines 136-193: the item of one file type, with its first ten files and
\* the number of the files that are not shown
TypeItem(typeStats, sortedFiles) ==
    [extension |-> typeStats.extension,
     fileCount |-> typeStats.fileCount,
     totalLengthInCm |-> typeStats.totalLengthInCm,
     children |-> SubSeq(sortedFiles, 1, Min(10, Len(sortedFiles))),
     more |-> IF Len(sortedFiles) > 10 THEN Len(sortedFiles) - 10 ELSE 0]

\* part_000 lines 96-117: generateTooltip, which the constructor of
\* ProjectStatsTreeItem calls at line 58, reads a property of the data of an
\* item of type filetype or file and throws a TypeError when the item was
\* made without data; data is <<>> then, and the data in a sequence otherwise
generateTooltipThrows(type, data) ==
    type \in {"filetype", "file"} /\ data = <<>>

\* lines 181-191: the item '... and N more files' is made when there are more
\* than 10 files, as an item of type filetype without data
showMoreItemThrows(sortedFiles) ==
    Len(sortedFiles) > 10 /\ generateTooltipThrows("filetype", <<>>)

\* buildTreeItems in the view mode byType: lines 129-197, the view by file
\* type of the project stats of provider v.  The loop ends at the first file
\* type whose item of the files not shown throws: the files of the types up
\* to it are sorted by name, the items of the types before it are pushed.
buildFileTypeView(v) ==
    LET returned == getFileTypeStats(v.projectStats)
        stats == returned.stats
        map == returned.projectStats.filesByExtension
        thrown == {j \in 1..Len(stats) :
                     showMoreItemThrows(FilesOf(returned.projectStats,
                                                stats[j]))}
        last == IF thrown = {} THEN Len(stats)
                ELSE CHOOSE j \in thrown : \A k \in thrown : j <= k
        reached(extension) ==
            \E j \in 1..last : stats[j].files = extension
        sorted == [j \in 1..Len(map) |->
                      IF reached(map[j].extension)
                      THEN [map[j] EXCEPT !.files = sortByName(@)]
                      ELSE map[j]]
        projectStats == [returned.projectStats EXCEPT
                             !.filesByExtension = sorted]
        pushed == IF thrown = {} THEN last ELSE last - 1
    IN  [v EXCEPT !.pc = IF thrown = {} THEN "built" ELSE "threw",
                  !.projectStats = projectStats,
                  !.fileTypeStats = stats,
                  !.typeItems =
                      [j \in 1..pushed |->
                          TypeItem(stats[j], FilesOf(projectStats, stats[j]))]]

NonEmptyFileLists ==
    {SelectSeq(PathOrder, LAMBDA p : p \in S) : S \in (SUBSET Paths) \ {{}}}

\* the calls of analyzeWorkspace and the steps of a run that probes every
\* file
Service ==
    \/ \E c \in Callers : analyzeWorkspace(c)
    \/ \E c \in Callers : ExcludePatternsDone(c)
    \/ \E c \in Callers : FindFilesDone(c)
    \/ \E c \in Callers : FindFilesFails(c)
    \/ \E c \in Callers, p \in Paths : ProbeStat(c, p)
    \/ \E c \in Callers, p \in Paths : ProbeRead(c, p)

Notifications ==
    \/ \E p \in Paths : onDidChangeTextDocument(p)
    \/ onDidCreateFiles
    \/ \E files \in NonEmptyFileLists : onDidDeleteFiles(files)
    \/ invalidateCacheCommand

\* The service while time passes and files are written.
Next ==
    \/ Service
    \/ \E c \in Callers : ModifiedStat(c)
    \/ Notifications
    \/ Tick
    \/ \E p \in Paths : FsWrite(p)

Spec == Init /\ [][Next]_vars

\* Every awaited I/O call completes in the end: the stats and the reads of
\* analyzeFile, getExcludePatterns and findFiles (which resolves unless it
\* rejects first).  For the last three WF_vars(A) is written out, with the
\* guard of A for ENABLED <<A>>_vars.
Fairness ==
    /\ \A c \in Callers, p \in DOMAIN Workspace : WF_vars(ProbeStat(c, p))
    /\ \A c \in Callers, p \in DOMAIN Workspace :
          \/ []<>~(run[c].pc = "chunk" /\ run[c].probe[p].st = "read")
          \/ []<><<ProbeRead(c, p)>>_vars
    /\ \A c \in Callers :
          \/ []<>(run[c].pc # "patterns")
          \/ []<><<ExcludePatternsDone(c)>>_vars
    /\ \A c \in Callers :
          \/ []<>(run[c].pc # "findFiles")
          \/ []<><<FindFilesDone(c)>>_vars

\* The service while notifications arrive.  No time passes, so that every
\* run probes every file.
NextLive ==
    \/ Service
    \/ Notifications

\* The service when every awaited I/O call completes in the end.
SpecLive == Init /\ [][NextLive]_vars /\ Fairness

\* The service while files and the workspace folder come and go.  No time
\* passes, so that no project stats outlive their freshness window and
\* getModifiedFiles never enters its loop.
NextFailures ==
    \/ Service
    \/ Notifications
    \/ \E p \in Paths : FsDelete(p)
    \/ \E p \in Paths : FsCreate(p)
    \/ WorkspaceFoldersChange

SpecFailures == Init /\ [][NextFailures]_vars

(***************************************************************************)
(* The folder view of any list of file stats.                              *)
(***************************************************************************)
\* Relative paths: files of the workspace folder with and without a '.',
\* files in folders one, two and three deep, a file in a folder with a '.'
\* in its name, the path that analyzeFile takes as relative path when there
\* is no workspace folder, and a file in a folder with a capital name.
RelativePaths == <<
    <<"a",".","t","s">>,
    <<"R","E","A","D","M","E">>,
    <<"b","/","c",".","m","d">>,
    <<"b","/","d","/","e",".","t","s">>,
    <<"b","/","d","/","f","/","g",".","t","s">>,
    <<"x",".","y","/","z">>,
    WorkspaceRoot \o <<"/","h",".","t","s">>,
    <<"C","/","i",".","t","s">>>>

\* The stats that analyzeFile makes of the n-th of these files; the third
\* is binary.
ViewFile(n) ==
    LET relativePath == RelativePaths[n]
        filePath == IF startsWith(relativePath, <<"/">>) THEN relativePath
                    ELSE WorkspaceRoot \o <<"/">> \o relativePath
    IN  FileStatsOf(filePath, relativePath, 2 * n + 1, 1,
                    IF n = 3 THEN -1 ELSE 2 * n, DefaultCmPerCharacter)

\* the lists of at most MaxFiles different files
ViewFileLists ==
    {[j \in 1..Len(seq) |-> ViewFile(seq[j])] :
        seq \in {q \in UNION {[1..n -> 1..Len(RelativePaths)] :
                                n \in 0..MaxFiles} :
                    \A i, j \in 1..Len(q) : q[i] = q[j] => i = j}}

InitView ==
    /\ fs = Workspace
    /\ InitServices
    /\ \E files \in ViewFileLists, mode \in {"byFolder", "byType"} :
         view = [NewProvider EXCEPT !.fileStats = files, !.viewMode = mode]
    /\ loop = NoLoop
    /\ ui = NewUi

\* the project stats of the file stats are built, memoized and given to the
\* provider
ViewProjectStats ==
    /\ view.pc = "new"
    /\ view' = [view EXCEPT !.pc = "stats",
                            !.projectStats =
                                buildProjectStats(view.fileStats, now)]
    /\ cache' = setCachedProjectStats(cache, view'.projectStats, now)
    /\ UNCHANGED <<fs, gitignoreFile, now, ticks, workspaceFolders,
                   cmPerCharacter, isAnalyzing, gitignore, run,
                   lastOp, hist, loop, ui>>

\* the provider and the cache hold the same project stats object: what a
\* step does to the one is done to the other
SameObject(v) ==
    /\ view' = v
    /\ cache' = [cache EXCEPT !.projectStatsCache = v.projectStats]
    /\ UNCHANGED <<fs, gitignoreFile, now, ticks, workspaceFolders,
                   cmPerCharacter, isAnalyzing, gitignore, run,
                   lastOp, hist, loop, ui>>

\* a call of fileAnalysisService.getFileTypeStats(projectStats)
FileTypeStatsCall ==
    /\ view.pc = "stats"
    /\ LET returned == getFileTypeStats(view.projectStats)
       IN  SameObject([view EXCEPT !.pc = "types",
                                   !.projectStats = returned.projectStats,
                                   !.fileTypeStats = returned.stats])

\* buildTreeItems, lines 102-127, in the view mode of the provider
buildTreeItems ==
    /\ view.pc \in {"stats", "types"}
    /\ IF view.viewMode = "byType"
       THEN SameObject(buildFileTypeView(view))
       ELSE SameObject(buildFolderView(view))

\* getRootItems, lines 79-83: analyzeWorkspace has returned project stats
\* to the provider, which builds its items
getRootItems ==
    /\ view.pc = "new"
    /\ lastOp.ret.kind = "stats"
    /\ view' = buildFolderView(
                   [view EXCEPT !.projectStats = lastOp.ret.stats])
    /\ UNCHANGED <<fs, gitignoreFile, now, ticks, workspaceFolders,
                   cmPerCharacter, cache, isAnalyzing, gitignore, run,
                   lastOp, hist, loop, ui>>

NextView ==
    \/ ViewProjectStats
    \/ FileTypeStatsCall
    \/ buildTreeItems

SpecView == InitView /\ [][NextView]_vars

(***************************************************************************)
(* The provider and the requests of the tree view for its root items.  The *)
(* call of analyzeWorkspace that a request awaits resolves with the        *)
(* project stats of the file stats that the analysis comes to, or rejects. *)
(***************************************************************************)
\* The stats of the n-th TypeScript file of the workspace folder, a.ts, b.ts
\* and so on, and of a Markdown file that is longer than all of them.
ProviderFile(n) ==
    LET relativePath == <<LowerCase[n], ".", "t", "s">>
    IN  FileStatsOf(WorkspaceRoot \o <<"/">> \o relativePath, relativePath,
                    n, 1, n, DefaultCmPerCharacter)

ReadmeFile ==
    LET relativePath == <<"r", ".", "m", "d">>
    IN  FileStatsOf(WorkspaceRoot \o <<"/">> \o relativePath, relativePath,
                    200, 1, 200, DefaultCmPerCharacter)

\* the last n TypeScript files first, with and without the Markdown file
ProviderFileLists ==
    {[j \in 1..n |-> ProviderFile(n + 1 - j)] \o readme :
        n \in 0..MaxTypeFiles, readme \in {<<>>, <<ReadmeFile>>}}

InitProvider ==
    /\ fs = Workspace
    /\ InitServices
    /\ \E files \in ProviderFileLists, mode \in {"byFolder", "byType"} :
         view = [NewProvider EXCEPT !.fileStats = files, !.viewMode = mode]
    /\ loop = NoLoop
    /\ ui = NewUi

\* what a request for the root items returns: the root items, the item
\* 'Analyzing project...', no item, or (Error) the item 'Error: ...'
RootItems == [kind |-> "rootItems"]
Placeholder == [kind |-> "placeholder"]
NoItems == [kind |-> "noItems"]

\* this.rootItems.length > 0: buildTreeItems pushes the item 'Project Total'
\* before it builds the view
hasRootItems(v) == v.pc \in {"built", "threw"}

\* this.rootItems = []
ClearRootItems(v) ==
    [v EXCEPT !.pc = "new", !.rootFiles = <<>>, !.folders = <<>>,
              !.folderStructure = <<>>, !.fileTypeStats = <<>>,
              !.typeItems = <<>>]

\* a step of the provider
ProviderStep(v, op) ==
    /\ view' = v
    /\ lastOp' = op
    /\ UNCHANGED <<fs, gitignoreFile, now, ticks, workspaceFolders,
                   cmPerCharacter, cache, isAnalyzing, gitignore, run,
                   hist, loop, ui>>

\* getChildren as if getRootItems did not look at isLoading
getChildrenWhileLoading(q) ==
    /\ view.request[q] = "idle"
    /\ \A q2 \in Requests : q2 < q => view.request[q2] # "idle"
    /\ IF ~workspaceFolders
       THEN ProviderStep(view, Op("getChildren", q, NoItems))
       ELSE IF hasRootItems(view)
       THEN ProviderStep(view, Op("getChildren", q, RootItems))
       ELSE ProviderStep([view EXCEPT !.isLoading = TRUE,
                                      !.request[q] = "loading"],
                         Op("getChildren", q, Pending))

\* getChildren() of the root, lines 47-55, and getRootItems up to its await,
\* lines 65-81.  A request takes the lowest free slot.
getChildren(q) ==
    /\ view.request[q] = "idle"
    /\ \A q2 \in Requests : q2 < q => view.request[q2] # "idle"
    /\ IF ~workspaceFolders
       THEN ProviderStep(view, Op("getChildren", q, NoItems))
       ELSE IF hasRootItems(view)
       THEN ProviderStep(view, Op("getChildren", q, RootItems))
       ELSE IF view.isLoading
       THEN ProviderStep(view, Op("getChildren", q, Placeholder))
       ELSE ProviderStep([view EXCEPT !.isLoading = TRUE,
                                      !.request[q] = "loading"],
                         Op("getChildren", q, Pending))

\* lines 81-83 and 84-99: analyzeWorkspace resolves with project stats, which
\* the cache holds too; buildTreeItems builds the view of the view mode, and
\* what it throws is caught; isLoading is cleared
getRootItemsResolved(q) ==
    /\ view.request[q] = "loading"
    /\ LET stats == buildProjectStats(view.fileStats, now)
           given == [view EXCEPT !.projectStats = stats]
           built == IF view.viewMode = "byType"
                    THEN buildFileTypeView(given)
                    ELSE buildFolderView(given)
       IN  /\ view' = [built EXCEPT !.isLoading = FALSE,
                                    !.request[q] = "idle"]
           /\ cache' = [setCachedProjectStats(cache, stats, now) EXCEPT
                            !.projectStatsCache = built.projectStats]
           /\ lastOp' = Op("resolved", q,
                           IF built.pc = "threw"
                           THEN Error("Cannot read properties of undefined")
                           ELSE RootItems)
    /\ UNCHANGED <<fs, gitignoreFile, now, ticks, workspaceFolders,
                   cmPerCharacter, isAnalyzing, gitignore, run, hist,
                   loop, ui>>

\* lines 84-99: analyzeWorkspace rejects; isLoading is cleared
getRootItemsRejected(q) ==
    /\ view.request[q] = "loading"
    /\ ProviderStep([view EXCEPT !.isLoading = FALSE, !.request[q] = "idle"],
                    Op("rejected", q, Error("analyzeWorkspace")))

\* lines 21-25
refresh ==
    /\ view' = [ClearRootItems(view) EXCEPT !.projectStats = NULL]
    /\ lastOp' = Op("refresh", 0, None)
    /\ UNCHANGED <<fs, gitignoreFile, now, ticks, workspaceFolders,
                   cmPerCharacter, cache, isAnalyzing, gitignore, run,
                   hist, loop, ui>>

\* lines 33-37
setViewMode(mode) ==
    /\ view' = [ClearRootItems(view) EXCEPT !.viewMode = mode]
    /\ lastOp' = Op("setViewMode", 0, None)
    /\ UNCHANGED <<fs, gitignoreFile, now, ticks, workspaceFolders,
                   cmPerCharacter, cache, isAnalyzing, gitignore, run,
                   hist, loop, ui>>

\* projectStatsView.ts lines 76-82: the workspace folders change, and the
\* handler of the view refreshes the provider
onDidChangeWorkspaceFolders ==
    /\ workspaceFolders' = ~workspaceFolders
    /\ view' = [ClearRootItems(view) EXCEPT !.projectStats = NULL]
    /\ lastOp' = Op("onDidChangeWorkspaceFolders", 0, None)
    /\ UNCHANGED <<fs, gitignoreFile, now, ticks, cmPerCharacter, cache,
                   isAnalyzing, gitignore, run, hist, loop, ui>>

NextProvider ==
    \/ \E q \in Requests : getChildren(q)
    \/ \E q \in Requests : getRootItemsResolved(q)
    \/ \E q \in Requests : getRootItemsRejected(q)
    \/ refresh
    \/ \E mode \in {"byType", "byFolder"} : setViewMode(mode)
    \/ onDidChangeWorkspaceFolders

SpecProvider == InitProvider /\ [][NextProvider]_vars

(***************************************************************************)
(* The services and the provider in a workspace folder that holds a.txt    *)
(* with 50 characters, b/c.txt with 150 characters and b/d.bin with 4096   *)
(* bytes that are not UTF-8, the scale factor being 0.3 cm.                *)
(***************************************************************************)
ScenarioWorkspace ==
    (PathTxtA :> [exists |-> TRUE, mtime |-> 1,
                  content |-> [j \in 1..50 |-> 97]])
    @@ (PathTxtC :> [exists |-> TRUE, mtime |-> 1,
                     content |-> [j \in 1..150 |-> 98]])
    @@ (PathBinD :> [exists |-> TRUE, mtime |-> 1,
                     content |-> [j \in 1..4096 |-> 255]])

\* The .gitignore file of the workspace is the usual one, or there is none.
InitScenario ==
    /\ fs = ScenarioWorkspace
    /\ \/ gitignoreFile = [readable |-> TRUE, content |-> GitignoreText]
       \/ gitignoreFile = [readable |-> FALSE, content |-> <<>>]
    /\ now = 1
    /\ ticks = 0
    /\ workspaceFolders = TRUE
    /\ cmPerCharacter = DefaultCmPerCharacter
    /\ cache = NewCacheService
    /\ isAnalyzing = FALSE
    /\ gitignore = [initialized |-> FALSE, gitignorePatterns |-> <<>>]
    /\ run = [c \in Callers |-> IdleRun]
    /\ lastOp = Op("init", 0, None)
    /\ hist = InitHist
    /\ view = NewProvider
    /\ loop = NoLoop
    /\ ui = NewUi

NextScenario ==
    \/ Service
    \/ \E c \in Callers : ModifiedStat(c)
    \/ Tick
    \/ getRootItems

SpecScenario == InitScenario /\ [][NextScenario]_vars

(***************************************************************************)
(* The chunk loop of analyzeWorkspace, lines 98-109, over any number of    *)
(* files to analyze.  The files differ in nothing that the loop looks at,  *)
(* so the calls of analyzeFile of a chunk are counted by where they are.   *)
(***************************************************************************)
\* Math.ceil(n / chunkSize)
NumChunks(n) == (n + chunkSize - 1) \div chunkSize

\* the chunks as if the slice ended one file later, at i + chunkSize + 1
ChunkLengthWithNext(n, b) == Min(chunkSize + 1, n - (b - 1) * chunkSize)

\* filesToAnalyze.slice(i, i + chunkSize).length, for the b-th chunk
ChunkLength(n, b) == Min(chunkSize, n - (b - 1) * chunkSize)

\* the chunk that index i is the start of
ChunkAt(i) == (i \div chunkSize) + 1

\* lines 99-105, the head of the loop: analyzeFile is called on every file
\* of the chunk at l.i and Promise.all is awaited, or the loop is left
EnterChunk(l) ==
    IF l.i < l.n
    THEN [l EXCEPT !.pc = "await",
                   !.stat[ChunkAt(l.i)] = @ + ChunkLength(l.n, ChunkAt(l.i))]
    ELSE [l EXCEPT !.pc = "after"]

\* the loop does not wait for the calls of the chunk
ChunkResolvedAtOnce(l) == TRUE

\* Promise.all of line 104 resolves: every call of the chunk has returned
ChunkResolved(l) ==
    l.done[ChunkAt(l.i)] = ChunkLength(l.n, ChunkAt(l.i))

InitLoop ==
    /\ fs = Workspace
    /\ InitServices
    /\ view = NewProvider
    /\ ui = NewUi
    /\ \E n \in 0..MaxStaleFiles :
         loop = EnterChunk([pc |-> "head", n |-> n, i |-> 0,
                            stat |-> [b \in 1..NumChunks(n) |-> 0],
                            read |-> [b \in 1..NumChunks(n) |-> 0],
                            done |-> [b \in 1..NumChunks(n) |-> 0]])

LoopStep(l) ==
    /\ loop' = l
    /\ UNCHANGED <<fs, gitignoreFile, now, ticks, workspaceFolders,
                   cmPerCharacter, cache, isAnalyzing, gitignore, run,
                   lastOp, hist, view, ui>>

\* analyzeFile, line 142: the stat of a file of chunk b resolves and
\* readFile is called
LoopStatResolves(b) ==
    /\ loop.stat[b] > 0
    /\ LoopStep([loop EXCEPT !.stat[b] = @ - 1, !.read[b] = @ + 1])

\* analyzeFile, lines 142 and 181-184: the stat rejects, null is returned
LoopStatRejects(b) ==
    /\ loop.stat[b] > 0
    /\ LoopStep([loop EXCEPT !.stat[b] = @ - 1, !.done[b] = @ + 1])

\* analyzeFile, lines 154-180: readFile resolves or rejects, the stats are
\* returned
LoopReadEnds(b) ==
    /\ loop.read[b] > 0
    /\ LoopStep([loop EXCEPT !.read[b] = @ - 1, !.done[b] = @ + 1])

\* lines 104-108 and 99: Promise.all resolves, the results are pushed, i
\* advances, and the loop goes on with the next chunk or is left
ChunkResolves ==
    /\ loop.pc = "await"
    /\ ChunkResolved(loop)
    /\ LoopStep(EnterChunk([loop EXCEPT !.i = @ + chunkSize]))

NextLoop ==
    \/ \E b \in DOMAIN loop.stat : LoopStatResolves(b)
    \/ \E b \in DOMAIN loop.stat : LoopStatRejects(b)
    \/ \E b \in DOMAIN loop.stat : LoopReadEnds(b)
    \/ ChunkResolves

SpecLoop == InitLoop /\ [][NextLoop]_vars

(***************************************************************************)
(* GitIgnoreService on any short .gitignore file, readable or not: the     *)
(* calls of analyzeWorkspace up to the point where the exclude patterns    *)
(* are given to findFiles.                                                 *)
(***************************************************************************)
\* The characters of the .gitignore files: a comment sign, white space, a
\* line end, a letter, a star, a slash and a comma.
GitignoreAlphabet == {"#", " ", "\n", "v", "*", "/", ","}

GitignoreTexts ==
    UNION {[1..n -> GitignoreAlphabet] : n \in 0..MaxGitignoreLength}

InitGitignore ==
    /\ fs = Workspace
    /\ \/ \E content \in GitignoreTexts :
            gitignoreFile = [readable |-> TRUE, content |-> content]
       \/ gitignoreFile = [readable |-> FALSE, content |-> <<>>]
    /\ now = 1
    /\ ticks = 0
    /\ workspaceFolders = TRUE
    /\ cmPerCharacter = DefaultCmPerCharacter
    /\ cache = NewCacheService
    /\ isAnalyzing = FALSE
    /\ gitignore = [initialized |-> FALSE, gitignorePatterns |-> <<>>]
    /\ run = [c \in Callers |-> IdleRun]
    /\ lastOp = Op("init", 0, None)
    /\ hist = InitHist
    /\ view = NewProvider
    /\ loop = NoLoop
    /\ ui = NewUi

NextGitignore ==
    \/ \E c \in Callers : analyzeWorkspace(c)
    \/ \E c \in Callers : ExcludePatternsDone(c)

SpecGitignore == InitGitignore /\ [][NextGitignore]_vars

(***************************************************************************)
(* The format modes of the status bar and of the tree view, under the      *)
(* commands howlong.cycleFormat and howlong.cycleProjectFormat.            *)
(***************************************************************************)
\* the switch as it is for the four modes of the first versions, without
\* the file sizes
cycleFormatModeOfFour(formatMode) ==
    CASE formatMode = "fun" -> "metric"
      [] formatMode = "metric" -> "us"
      [] formatMode = "us" -> "time"
      [] formatMode = "time" -> "fun"
      [] OTHER -> formatMode

\* the switch of cycleFormatMode; a value that is no case of it stays
cycleFormatMode(formatMode) ==
    CASE formatMode = "fun" -> "metric"
      [] formatMode = "metric" -> "us"
      [] formatMode = "us" -> "time"
      [] formatMode = "time" -> "size"
      [] formatMode = "size" -> "fun"
      [] OTHER -> formatMode

InitFormat ==
    /\ fs = Workspace
    /\ InitServices
    /\ view = NewProvider
    /\ loop = NoLoop
    /\ \E stored \in [FormatKeys -> FormatMode \cup {undefined}] :
         ui = ConstructUi(stored)

\* FileInfoStatusBar.cycleFormatMode: the command howlong.cycleFormat
cycleFormat ==
    /\ ui.calls.statusBarFormatMode < MaxCycleCalls
    /\ ui' = [ui EXCEPT
                !.statusBar = cycleFormatMode(@),
                !.workspaceState.statusBarFormatMode =
                    cycleFormatMode(ui.statusBar),
                !.calls.statusBarFormatMode = @ + 1]
    /\ UNCHANGED <<fs, gitignoreFile, now, ticks, workspaceFolders,
                   cmPerCharacter, cache, isAnalyzing, gitignore, run,
                   lastOp, hist, view, loop>>

\* ProjectStatsView.cycleFormatMode: the command howlong.cycleProjectFormat
cycleProjectFormat ==
    /\ ui.calls.treeFormatMode < MaxCycleCalls
    /\ ui' = [ui EXCEPT
                !.treeView = cycleFormatMode(@),
                !.workspaceState.treeFormatMode =
                    cycleFormatMode(ui.treeView),
                !.provider = cycleFormatMode(ui.treeView),
                !.calls.treeFormatMode = @ + 1]
    /\ UNCHANGED <<fs, gitignoreFile, now, ticks, workspaceFolders,
                   cmPerCharacter, cache, isAnalyzing, gitignore, run,
                   lastOp, hist, view, loop>>

NextFormat ==
    \/ cycleFormat
    \/ cycleProjectFormat

SpecFormat == InitFormat /\ [][NextFormat]_vars

(***************************************************************************)
(* The service while the scale factor is calibrated between and during     *)
(* the runs.                                                               *)
(***************************************************************************)
\* The scale factors: the default, and 0.5 cm per character (100 characters
\* measured as 50 cm).
ScaleFactors == {DefaultCmPerCharacter, 5}

\* FileInfoStatusBar.calibrateLength, lines 116-123: the measured length is
\* entered and the scale factor is saved to the workspace state
calibrateLength ==
    /\ \E actualCmPerChar \in ScaleFactors \ {cmPerCharacter} :
         cmPerCharacter' = actualCmPerChar
    /\ hist' = hist
    /\ Env
    /\ UNCHANGED <<fs, gitignoreFile, now, ticks, workspaceFolders>>

NextCalibrate ==
    \/ Service
    \/ \E c \in Callers : ModifiedStat(c)
    \/ Tick
    \/ \E p \in Paths : FsWrite(p)
    \/ calibrateLength

SpecCalibrate == Init /\ [][NextCalibrate]_vars

TypeOK ==
    /\ isAnalyzing \in BOOLEAN
    /\ \A c \in Callers :
         run[c].pc \in {"idle", "patterns", "findFiles", "modified", "chunk"}

(***************************************************************************)
(* The in-flight guard.                                                    *)
(***************************************************************************)
InFlight == {c \in Callers : Running(c)}

Rejected(op) ==
    /\ op.op = "call"
    /\ op.ret = Error("Analysis already in progress")

\* C1: while a run of analyzeWorkspace is in flight, every other call fails
\* at once with 'Analysis already in progress' and starts nothing, so that at
\* most one run is in flight in every reachable state.
C1_OneRunInFlight ==
    /\ [](Cardinality(InFlight) <= 1)
    /\ [][(lastOp'.op = "call" /\ lastOp' # lastOp /\ InFlight # {})
            => (Rejected(lastOp') /\ run' = run)]_vars

C1_Witness ==
    /\ Rejected(lastOp)
    /\ \E c \in Callers : run[c].pc = "chunk"

\* C2: a call rejected by the guard changes no state: the flag stays set,
\* the file cache, the project stats and their stamp are untouched, and the
\* run in flight is where it was, with the same locals, the same disk and
\* the same clock, so that it goes on as if the call had not been made.
C2_RejectedCallChangesNothing ==
    [][Rejected(lastOp')
         => /\ isAnalyzing' = TRUE
            /\ UNCHANGED <<cache, isAnalyzing, run, gitignore, hist, envVars>>
      ]_vars

C2_Witness ==
    /\ Rejected(lastOp)
    /\ isAnalyzing
    /\ \E c \in Callers, p \in Paths :
         /\ run[c].pc = "chunk"
         /\ run[c].probe[p].st = "read"
         /\ cache.fileStatsCache # EmptyFileCache

\* C3: when no run is in flight the guard is clear, whether the runs before
\* returned or threw; hence a call is rejected only while a run is in flight.
C3_GuardClearedWhenRunEnds ==
    /\ [](InFlight = {} => ~isAnalyzing)
    /\ [][(Rejected(lastOp') /\ lastOp' # lastOp) => InFlight # {}]_vars

C3_Witness ==
    /\ lastOp.op = "settle"
    /\ lastOp.ret.kind = "error"
    /\ InFlight = {}
    /\ ~isAnalyzing
    /\ cache.fileStatsCache # EmptyFileCache

(***************************************************************************)
(* The memoized project stats.                                             *)
(***************************************************************************)
\* a call of analyzeWorkspace is made in this step
CallStep == lastOp'.op = "call" /\ lastOp' # lastOp

Cleared == [projectStatsCache |-> NULL, fileStatsCache |-> EmptyFileCache,
            cacheTimestamp |-> 0]

\* the values Date.now() takes in the model
Times == {now} \cup {1, CACHE_DURATION, CACHE_DURATION + 1,
                     2 * CACHE_DURATION, 2 * CACHE_DURATION + 1}

\* C4: a call made when fresh project stats are memoized and no run is in
\* flight returns them in the step of the call, with no I/O, and leaves the
\* flag, the file cache, the project stats and their stamp as they were.
C4_CacheHitIsPure ==
    [][(CallStep /\ InFlight = {} /\ getCachedProjectStats(cache, now) # NULL)
         => /\ lastOp'.ret = Stats(cache.projectStatsCache)
            /\ hist'.io = hist.io
            /\ UNCHANGED <<cache, isAnalyzing, run, gitignore, envVars>>
      ]_vars

C4_Witness ==
    /\ lastOp.op = "call"
    /\ lastOp.ret.kind = "stats"
    /\ lastOp.ret.stats.totalFiles = Cardinality(Paths)
    /\ now > cache.cacheTimestamp
    /\ \A p \in Paths : cache.fileStatsCache[p] # NULL

\* C5 as claimed: a call made less than the freshness window after the call
\* before it returned, with no change on disk and no invalidation between
\* the two, returns at once the project stats that were returned before.
C5_AsClaimed ==
    [][(/\ CallStep
        /\ InFlight = {}
        /\ hist.lastReturn # NULL
        /\ now - hist.lastReturnAt < CACHE_DURATION)
         => lastOp'.ret = Stats(hist.lastReturn)]_vars

\* C5, amended: a call made less than the freshness window after the project
\* stats returned by the call before it were memoized, with no change on
\* disk and no invalidation between the two, returns at once those same
\* project stats: counts, totals, files by extension and lastUpdated.
C5_SecondCallServedFromCache ==
    [][(/\ CallStep
        /\ InFlight = {}
        /\ hist.lastReturn # NULL
        /\ now - hist.lastStamp < CACHE_DURATION)
         => /\ lastOp'.ret = Stats(hist.lastReturn)
            /\ cache' = cache]_vars

C5_Witness ==
    /\ lastOp.op = "call"
    /\ lastOp.ret = Stats(hist.lastReturn)
    /\ hist.lastReturnAt > hist.lastStamp
    /\ lastOp.ret.stats.lastUpdated = hist.lastStamp
    /\ lastOp.ret.stats.totalFiles > 0

\* C6: getCachedProjectStats returns project stats exactly when some were
\* stored by setCachedProjectStats, nothing was invalidated since, and less
\* than CACHE_DURATION has passed since; they are the ones stored then.
C6_CachedStatsOnlyIfStoredAndFresh ==
    /\ getCachedProjectStats(cache, now) # NULL
         <=> /\ hist.storedAt > 0
             /\ ~hist.invalidated
             /\ now - hist.storedAt < CACHE_DURATION
    /\ getCachedProjectStats(cache, now) # NULL
         => getCachedProjectStats(cache, now).lastUpdated = hist.storedAt

C6_Witness ==
    /\ hist.storedAt > 0
    /\ ~hist.invalidated
    /\ now - hist.storedAt >= CACHE_DURATION
    /\ cache.projectStatsCache # NULL
    /\ getCachedProjectStats(cache, now) = NULL

\* C7: invalidateFileCache(p) removes the cached stats of p, leaves those of
\* every other file as they were, and makes getCachedProjectStats return
\* null whatever the stamp and the clock; it goes on returning null until
\* project stats are stored again.
C7_InvalidateFileIsNarrow ==
    /\ [][lastOp'.op = "onDidChangeTextDocument"
            => LET p == lastOp'.arg[1]
               IN  /\ cache'.fileStatsCache[p] = NULL
                   /\ \A q \in Paths \ {p} :
                        cache'.fileStatsCache[q] = cache.fileStatsCache[q]
                   /\ cache'.cacheTimestamp = cache.cacheTimestamp
                   /\ \A t \in Times : getCachedProjectStats(cache', t) = NULL
         ]_vars
    /\ [][(getCachedProjectStats(cache, now) = NULL /\ hist.invalidated
             /\ hist'.invalidated)
            => getCachedProjectStats(cache', now') = NULL]_vars

C7_Witness ==
    /\ lastOp.op = "onDidChangeTextDocument"
    /\ isCacheValid(cache, now)
    /\ cache.fileStatsCache[lastOp.arg[1]] = NULL
    /\ \E q \in Paths : cache.fileStatsCache[q] # NULL

InvalidateAllOps == {"invalidateCache", "onDidCreateFiles", "onDidDeleteFiles"}

AllFileLists == {SelectSeq(PathOrder, LAMBDA p : p \in S) : S \in SUBSET Paths}

C9_NotificationsInvalidate ==
    [][/\ lastOp'.op = "onDidChangeTextDocument"
            => cache' = [cache EXCEPT
                           !.fileStatsCache[lastOp'.arg[1]] = NULL,
                           !.projectStatsCache = NULL]
       /\ lastOp'.op = "onDidCreateFiles" => cache' = Cleared
       /\ lastOp'.op = "onDidDeleteFiles" => cache' = Cleared
       /\ lastOp'.op \in {"onDidChangeTextDocument", "onDidCreateFiles",
                          "onDidDeleteFiles"}
            => /\ cache'.projectStatsCache = NULL
               /\ getCachedProjectStats(cache', now') = NULL
               /\ UNCHANGED <<isAnalyzing, run>>
      ]_vars

C9_Witness ==
    /\ lastOp.op = "onDidDeleteFiles"
    /\ Len(lastOp.arg) = 1
    /\ cache = Cleared
    /\ hist.storedAt > 0
    /\ hist.invalidated

\* C10 as claimed: a run that starts after a completed run cached every file
\* and invalidateFileCache(p) followed probes no file that had cached stats
\* when it started and whose modification time has not advanced, and leaves
\* the cached stats of such a file as they were.
C10_AsClaimed ==
    [][(lastOp'.op = "settle" /\ lastOp'.ret.kind = "stats"
          /\ hist.phase = "running")
         => \A q \in Paths :
              (/\ hist.startCache[q] # NULL
               /\ fs'[q].mtime <= hist.startCache[q].lastModified)
                => /\ q \notin hist.probed
                   /\ cache'.fileStatsCache[q] = hist.startCache[q]
      ]_vars

(***************************************************************************)
(* Invalidation while a run is in flight.                                  *)
(***************************************************************************)

\* C11 as claimed: when a notification invalidated the cache while a run was
\* in flight, after the run has probed some files, then once the run has
\* returned getCachedProjectStats does not return project stats that hold
\* the stats of a file probed before the invalidation.
C11_AsClaimed ==
    [][(lastOp'.op = "settle" /\ lastOp'.ret.kind = "stats"
          /\ hist.stale # {})
         => \/ getCachedProjectStats(cache', now') = NULL
            \/ \A f \in RecordsOf(getCachedProjectStats(cache', now')) :
                  f.path \notin hist.stale
      ]_vars

(***************************************************************************)
(* getModifiedFiles.                                                       *)
(***************************************************************************)
\* file has cached stats and its modification time on disk is the cached
\* one or older
Unchanged(cs, disk, file) ==
    /\ cs.fileStatsCache[file] # NULL
    /\ disk[file].mtime <= cs.fileStatsCache[file].lastModified

\* C12: getModifiedFiles returns some of the files it is given, in their
\* order: all of them when projectStatsCache is null; otherwise a file
\* without cached stats or with a modification time greater than the cached
\* one is returned, and a file with cached stats whose modification time is
\* the cached one or older is not.  The same holds of every turn of its loop
\* in a run.
C12_ModifiedFiles ==
    /\ [](\A files \in AllFileLists :
            LET res == getModifiedFiles(cache, files, fs)
            IN  /\ res = SelectSeq(files, LAMBDA p : p \in SeqToSet(res))
                /\ cache.projectStatsCache = NULL => res = files
                /\ cache.projectStatsCache # NULL =>
                     \A p \in SeqToSet(files) :
                        /\ cache.fileStatsCache[p] = NULL
                             => p \in SeqToSet(res)
                        /\ (/\ cache.fileStatsCache[p] # NULL
                            /\ fs[p].mtime
                                 > cache.fileStatsCache[p].lastModified)
                             => p \in SeqToSet(res)
                        /\ (fs[p].exists /\ Unchanged(cache, fs, p))
                             => p \notin SeqToSet(res))
    /\ [][\A c \in Callers :
            /\ (run[c].pc = "findFiles" /\ run'[c].pc = "chunk"
                  /\ cache.projectStatsCache = NULL)
                 => run'[c].filesToAnalyze = run'[c].textFiles
            /\ (run[c].pc = "modified" /\ run'[c] # run[c])
                 => LET file == run[c].textFiles[run[c].k + 1]
                    IN  /\ (fs[file].exists /\ Unchanged(cache, fs, file))
                             => file \notin SeqToSet(run'[c].filesToAnalyze)
                        /\ ~Unchanged(cache, fs, file)
                             => file \in SeqToSet(run'[c].filesToAnalyze)
         ]_vars

C12_Witness ==
    /\ cache.projectStatsCache # NULL
    /\ \E c \in Callers :
         /\ run[c].pc = "chunk"
         /\ run[c].textFiles = PathOrder
         /\ run[c].filesToAnalyze = <<PathB>>
         /\ Unchanged(cache, fs, PathA)
         /\ fs[PathB].mtime > cache.fileStatsCache[PathB].lastModified

(***************************************************************************)
(* The files that getModifiedFiles does not return.                        *)
(***************************************************************************)
ClassifiedUnchanged == {q \in Paths : hist.unchanged[q] # NULL}

\* C13 as claimed: when a run returns project stats, every file that
\* getModifiedFiles found unchanged in that run (project stats memoized but
\* expired, cached stats present, modification time not advanced) was not
\* read and got no new cached stats in the run, and the project stats
\* returned hold the stats that were cached for it.
C13_AsClaimed ==
    [][(lastOp'.op = "settle" /\ lastOp'.ret.kind = "stats")
         => \A q \in ClassifiedUnchanged :
              /\ q \notin hist'.probed \cup hist.probed
              /\ [k |-> "read", p |-> q] \notin hist.io
              /\ hist.unchanged[q] \in RecordsOf(lastOp'.ret.stats)
              /\ \A f \in RecordsOf(lastOp'.ret.stats) :
                    f.path = q => f = hist.unchanged[q]
      ]_vars

(***************************************************************************)
(* The project stats that analyzeWorkspace returns.                        *)
(***************************************************************************)
\* C14: in all project stats returned by analyzeWorkspace, totalFiles is the
\* number of file stats in filesByExtension, and totalCharacters,
\* totalLengthInCm and totalSizeInBytes are the sums of their fields; no
\* extension occurs twice as a key, and no file occurs twice in the mapping,
\* be it under two keys or under one.
C14_TotalsMatchMapping ==
    lastOp.ret.kind = "stats" =>
        LET stats == lastOp.ret.stats
            map == stats.filesByExtension
            all == Flatten(map)
        IN  /\ stats.totalFiles = Len(all)
            /\ stats.totalCharacters =
                   Sum([j \in 1..Len(all) |-> all[j].characterCount])
            /\ stats.totalLengthInCm =
                   Sum([j \in 1..Len(all) |-> all[j].lengthInCm])
            /\ stats.totalSizeInBytes =
                   Sum([j \in 1..Len(all) |-> all[j].fileSize])
            /\ \A i, j \in 1..Len(map) :
                   map[i].extension = map[j].extension => i = j
            /\ \A i \in 1..Len(map) : map[i].files # <<>>
            /\ \A i, j \in 1..Len(all) : all[i].path = all[j].path => i = j

C14_Witness ==
    /\ lastOp.op = "settle"
    /\ lastOp.ret.kind = "stats"
    /\ lastOp.ret.stats.totalFiles = 2
    /\ Len(lastOp.ret.stats.filesByExtension) = 2
    /\ \E f \in RecordsOf(lastOp.ret.stats) : ~f.isTextFile /\ f.fileSize > 0
    /\ \E f \in RecordsOf(lastOp.ret.stats) : f.characterCount > 0

(***************************************************************************)
(* Grouping by extension.                                                  *)
(***************************************************************************)
\* the provider has project stats
HasStats == view.pc \in {"stats", "types", "built"}

\* C15 as claimed: every file of the project stats is under the key made of
\* what follows the last '.' of its path, and under 'No extension' when its
\* path has no '.'.
C15_AsClaimed ==
    HasStats =>
        \A j \in 1..Len(view.projectStats.filesByExtension) :
            LET group == view.projectStats.filesByExtension[j]
            IN  \A file \in SeqToSet(group.files) :
                    LET lastDot == lastIndexOf(file.path, ".")
                    IN  group.extension =
                            IF lastDot = 0 THEN NoExtension
                            ELSE SubSeq(file.path, lastDot + 1,
                                        Len(file.path))

\* C15, amended: every file of the project stats is under the key made of
\* its path from the last '.' on, that '.' included, and under 'No
\* extension' when its path has no '.'.
C15_KeyFromLastDot ==
    HasStats =>
        \A j \in 1..Len(view.projectStats.filesByExtension) :
            LET group == view.projectStats.filesByExtension[j]
            IN  \A file \in SeqToSet(group.files) :
                    LET lastDot == lastIndexOf(file.path, ".")
                    IN  /\ lastDot = 0 => group.extension = NoExtension
                        /\ lastDot > 0 =>
                             /\ group.extension[1] = "."
                             /\ group.extension =
                                   SubSeq(file.path, lastDot, Len(file.path))
                             /\ \A h \in 2..Len(group.extension) :
                                   group.extension[h] # "."

C15_Witness ==
    /\ HasStats
    /\ \E i, j \in 1..Len(view.projectStats.filesByExtension) :
         /\ view.projectStats.filesByExtension[i].extension = NoExtension
         /\ view.projectStats.filesByExtension[j].extension = <<".","t","s">>
         /\ Len(view.projectStats.filesByExtension[j].files) = 2

(***************************************************************************)
(* The folder view.                                                        *)
(***************************************************************************)
Built == view.pc = "built" /\ view.viewMode = "byFolder"

\* the files that buildFolderStructure was given
GivenFiles == Flatten(view.projectStats.filesByExtension)

\* the path of the folder that a relative path is in
ParentPath(path) ==
    LET pathParts == split(path, "/")
    IN  join(SubSeq(pathParts, 1, Len(pathParts) - 1), "/")

ChildFolders(folder) ==
    {g.path : g \in {h \in SeqToSet(view.folders) :
                        Depth(h.path) > 1 /\ ParentPath(h.path) = folder.path}}

\* C16: in the folder view of any list of files, every folder at every depth
\* has as totalCharacters, totalLengthInCm and totalSizeInBytes the sum over
\* its own files plus the sum of the totals of its subfolders, which are the
\* folders directly in it, each once; and the folders are taken the deepest
\* first, so that a folder is added to its parent after its own subfolders
\* were added to it.
C16_RollupOfFolders ==
    Built =>
        /\ \A folder \in SeqToSet(view.folders) :
             LET files == folder.files
                 subs == [j \in 1..Len(folder.subfolders) |->
                            MapGet(view.folders, folder.subfolders[j])]
             IN  /\ SeqToSet(folder.subfolders) = ChildFolders(folder)
                 /\ Len(folder.subfolders) = Cardinality(ChildFolders(folder))
                 /\ folder.totalCharacters =
                      Sum([j \in 1..Len(files) |-> files[j].characterCount])
                      + Sum([j \in 1..Len(subs) |-> subs[j].totalCharacters])
                 /\ folder.totalLengthInCm =
                      Sum([j \in 1..Len(files) |-> files[j].lengthInCm])
                      + Sum([j \in 1..Len(subs) |-> subs[j].totalLengthInCm])
                 /\ folder.totalSizeInBytes =
                      Sum([j \in 1..Len(files) |-> files[j].fileSize])
                      + Sum([j \in 1..Len(subs) |-> subs[j].totalSizeInBytes])
        /\ LET order == sortedFolders(
                            PlaceFiles(GivenFiles, [folderMap |-> <<>>,
                                                    rootFiles |-> <<>>])
                                .folderMap)
           IN  /\ SeqToSet(order) = {f.path : f \in SeqToSet(view.folders)}
               /\ \A i, j \in 1..Len(order) :
                    i < j => Depth(order[i]) >= Depth(order[j])

C16_Witness ==
    /\ Built
    /\ \E folder \in SeqToSet(view.folders) :
         /\ folder.files # <<>>
         /\ \E j \in 1..Len(folder.subfolders) :
              LET sub == MapGet(view.folders, folder.subfolders[j])
              IN  /\ sub.files = <<>>
                  /\ sub.subfolders # <<>>
                  /\ sub.totalCharacters > 0
         /\ folder.totalFiles = 2

\* the number of times file occurs in the root files and in the files of the
\* folders
Occurrences(file) ==
    Cardinality({j \in 1..Len(view.rootFiles) : view.rootFiles[j] = file})
      + Sum([k \in 1..Len(view.folders) |->
               Cardinality({j \in 1..Len(view.folders[k].files) :
                               view.folders[k].files[j] = file})])

C18_AsClaimed ==
    Built =>
        /\ view.projectStats.totalCharacters = 200
        /\ view.projectStats.totalLengthInCm = 600
        /\ MapHas(view.folders, <<"b">>)
        /\ MapGet(view.folders, <<"b">>).totalCharacters = 150
        /\ MapGet(view.folders, <<"b">>).totalFiles = 2
        /\ {f.path : f \in SeqToSet(MapGet(view.folders, <<"b">>).files)}
             = {PathTxtC, PathBinD}
        /\ [j \in 1..Len(view.rootFiles) |-> view.rootFiles[j].path]
             = <<PathTxtA>>

(***************************************************************************)
(* The file stats that analyzeFile makes.                                  *)
(***************************************************************************)
\* analyzeFile(p) of caller c makes its file stats in this step
MakesFileStats(c, p) ==
    /\ run[c].pc = "chunk"
    /\ run[c].probe[p].st = "read"
    /\ \/ run'[c].pc = "idle"
       \/ run'[c].pc = "chunk" /\ run'[c].probe[p].st = "done"

\* C19: the file stats that analyzeFile makes of a file, in a run with
\* scale factor cmPerChar, are flagged text exactly when the file was read
\* and its content decoded as UTF-8, whatever its extension; when text, their
\* characterCount is the length of the decoded text and their lengthInCm is
\* characterCount * cmPerChar; when binary, both are 0.
C19_FileStatsOfProbe ==
    [][\A c \in Callers, p \in Paths :
         MakesFileStats(c, p) =>
            LET stats == cache'.fileStatsCache[p]
                decoded == fs[p].exists /\ DecodedLength(fs[p].content) >= 0
            IN  /\ stats # NULL
                /\ stats.path = p
                /\ stats.isTextFile <=> decoded
                /\ stats.isTextFile =>
                     /\ stats.characterCount = DecodedLength(fs[p].content)
                     /\ stats.lengthInCm
                          = stats.characterCount * run[c].cmPerChar
                /\ ~stats.isTextFile =>
                     /\ stats.characterCount = 0
                     /\ stats.lengthInCm = 0
      ]_vars

C19_Witness ==
    /\ cache.fileStatsCache[PathA] # NULL
    /\ cache.fileStatsCache[PathB] # NULL
    /\ ~cache.fileStatsCache[PathA].isTextFile
    /\ cache.fileStatsCache[PathA].fileSize > 0
    /\ cache.fileStatsCache[PathB].isTextFile
    /\ cache.fileStatsCache[PathB].characterCount > 0
    /\ cache.fileStatsCache[PathB].lengthInCm
         = cache.fileStatsCache[PathB].characterCount * cmPerCharacter

\* C20 as claimed: whenever analyzeWorkspace returns project stats, every
\* file of the workspace folder whose content is not valid UTF-8 has file
\* stats in them, flagged binary, with its size in bytes and with no
\* characters and no length, and they are counted in the totals.
C20_AsClaimed ==
    lastOp.ret.kind = "stats" =>
        \A p \in Paths :
            (fs[p].exists /\ DecodedLength(fs[p].content) < 0) =>
                LET all == Flatten(lastOp.ret.stats.filesByExtension)
                IN  /\ \E f \in SeqToSet(all) :
                         /\ f.path = p
                         /\ ~f.isTextFile
                         /\ f.fileSize = Len(fs[p].content)
                         /\ f.characterCount = 0
                         /\ f.lengthInCm = 0
                    /\ lastOp.ret.stats.totalFiles = Len(all)
                    /\ lastOp.ret.stats.totalSizeInBytes
                         = Sum([j \in 1..Len(all) |-> all[j].fileSize])
                    /\ lastOp.ret.stats.totalCharacters
                         = Sum([j \in 1..Len(all) |-> all[j].characterCount])

(***************************************************************************)
(* Files that cannot be read.                                              *)
(***************************************************************************)
\* the stat of analyzeFile(p) of caller c rejects in this step
StatFails(c, p) ==
    /\ run[c].pc = "chunk"
    /\ run[c].probe[p].st = "stat"
    /\ ~fs[p].exists
    /\ \/ run'[c].pc = "idle"
       \/ run'[c].pc = "chunk" /\ run'[c].probe[p].st = "done"

\* the files of the chunk of caller c for which analyzeFile returned null
Skipped(c) ==
    {p \in Paths : /\ run[c].pc = "chunk"
                   /\ run[c].probe[p].st = "done"
                   /\ run[c].probe[p].result = NULL}

\* the run of caller c returns in this step
Settles(c) ==
    /\ run[c].pc # "idle"
    /\ lastOp'.op = "settle"
    /\ lastOp'.who = c

\* C21: when the stat of a file rejects during a run, analyzeFile returns
\* null for it and writes nothing to the cache, the run does not throw, and
\* it returns project stats without the files whose stat rejected: their
\* files are the files of the run whose stat resolved, and the totals are
\* the sums over those.
C21_StatFailureSkipsFile ==
    [][\A c \in Callers :
         /\ \A p \in Paths :
              StatFails(c, p) =>
                 /\ cache'.fileStatsCache[p] = cache.fileStatsCache[p]
                 /\ lastOp'.ret.kind # "error"
                 /\ run'[c].pc = "chunk" => run'[c].probe[p].result = NULL
         /\ (Settles(c) /\ run[c].pc = "chunk") =>
              LET skipped == Skipped(c) \cup {p \in Paths : StatFails(c, p)}
                  all == Flatten(lastOp'.ret.stats.filesByExtension)
              IN  /\ lastOp'.ret.kind = "stats"
                  /\ {all[j].path : j \in 1..Len(all)}
                       = SeqToSet(run[c].filesToAnalyze) \ skipped
                  /\ lastOp'.ret.stats.totalFiles = Len(all)
                  /\ lastOp'.ret.stats.totalFiles
                       = Cardinality(SeqToSet(run[c].filesToAnalyze) \ skipped)
                  /\ lastOp'.ret.stats.totalSizeInBytes
                       = Sum([j \in 1..Len(all) |-> all[j].fileSize])
                  /\ lastOp'.ret.stats.totalCharacters
                       = Sum([j \in 1..Len(all) |-> all[j].characterCount])
                  /\ lastOp'.ret.stats.totalLengthInCm
                       = Sum([j \in 1..Len(all) |-> all[j].lengthInCm])
      ]_vars

\* a run has returned one file of two, the stat of the other having failed
C21_Witness ==
    /\ lastOp.op = "settle"
    /\ lastOp.ret.kind = "stats"
    /\ lastOp.ret.stats.totalFiles = 1
    /\ \E p \in Paths :
         /\ ~fs[p].exists
         /\ cache.fileStatsCache[p] = NULL
         /\ \A f \in RecordsOf(lastOp.ret.stats) : f.path # p

\* C22 as claimed: when the stat of a file resolves and readFile rejects,
\* analyzeFile writes no stats of the file to the cache, and the project
\* stats that the run returns hold no stats of it.
C22_AsClaimed ==
    [][\A c \in Callers, p \in Paths :
         (MakesFileStats(c, p) /\ ~fs[p].exists) =>
            /\ cache'.fileStatsCache[p] = NULL
            /\ Settles(c) =>
                 \A f \in RecordsOf(lastOp'.ret.stats) : f.path # p
      ]_vars

(***************************************************************************)
(* The chunks of a run.                                                    *)
(***************************************************************************)
\* the number of analyzeFile calls of chunk b that have been made
Started(b) == loop.stat[b] + loop.read[b] + loop.done[b]

\* C23: the chunks of a run are analyzed in sequence: when a call of
\* analyzeFile of a chunk has been made, every call of every earlier chunk
\* has returned, with stats or with null; and the calls of one chunk are all
\* made together, whatever number of them has returned.
C23_ChunksInSequence ==
    \A b \in DOMAIN loop.stat :
        Started(b) > 0 =>
            /\ Started(b) = ChunkLength(loop.n, b)
            /\ \A a \in 1..(b - 1) :
                   loop.done[a] = ChunkLength(loop.n, a)

\* the second chunk of three is under way: some of its calls await their
\* stat, some their read, some have returned; the first chunk is done and
\* the third has not begun
C23_Witness ==
    /\ NumChunks(loop.n) = 3
    /\ loop.done[1] = chunkSize
    /\ loop.stat[2] > 0
    /\ loop.read[2] > 0
    /\ loop.done[2] > 0
    /\ Started(3) = 0

(***************************************************************************)
(* Notifications that arrive during a run.                                 *)
(***************************************************************************)
\* the files for which analyzeFile has returned stats to the run of caller
\* c, or returns them in this step
ProbeSucceeded(c) ==
    {run[c].fileStats[j].path : j \in 1..Len(run[c].fileStats)}
        \cup {p \in Paths : \/ run[c].probe[p].result # NULL
                            \/ MakesFileStats(c, p)}

\* C24 as claimed: when a run returns project stats, whatever notifications
\* arrived while it was in flight, every file that getModifiedFiles found
\* unchanged and every file for which analyzeFile returned stats has its
\* stats exactly once in them.
C24_AsClaimed ==
    [][\A c \in Callers :
         (Settles(c) /\ lastOp'.ret.kind = "stats") =>
            LET all == Flatten(lastOp'.ret.stats.filesByExtension)
            IN  \A q \in ClassifiedUnchanged \cup ProbeSucceeded(c) :
                   Cardinality({j \in 1..Len(all) : all[j].path = q}) = 1
      ]_vars

(***************************************************************************)
(* The stats by file type.                                                 *)
(***************************************************************************)
\* getFileTypeStats has just returned
Returned == view.pc = "types"

\* the extension mapping of the project stats as buildProjectStats made it
MappingAsBuilt == buildProjectStats(view.fileStats, now).filesByExtension

\* C25: getFileTypeStats returns one FileTypeStats for every key of
\* filesByExtension, in the order of non-increasing totalLengthInCm; the
\* files of each are the files under its key, in the order of non-increasing
\* lengthInCm; fileCount is their number, totalCharacters and
\* totalLengthInCm are the sums over them, and averageLengthInCm is
\* totalLengthInCm divided by fileCount.
C25_FileTypeStats ==
    Returned =>
        LET stats == view.fileTypeStats
        IN  /\ Len(stats) = Len(MappingAsBuilt)
            /\ \A i, j \in 1..Len(stats) :
                   stats[i].extension = stats[j].extension => i = j
            /\ \A j \in 1..(Len(stats) - 1) :
                   stats[j].totalLengthInCm >= stats[j + 1].totalLengthInCm
            /\ \A j \in 1..Len(stats) :
                 LET files == FilesOf(view.projectStats, stats[j])
                 IN  /\ \E e \in 1..Len(MappingAsBuilt) :
                          /\ MappingAsBuilt[e].extension = stats[j].extension
                          /\ SeqToSet(MappingAsBuilt[e].files)
                               = SeqToSet(files)
                          /\ Len(MappingAsBuilt[e].files) = Len(files)
                     /\ \A h \in 1..(Len(files) - 1) :
                          files[h].lengthInCm >= files[h + 1].lengthInCm
                     /\ stats[j].fileCount = Len(files)
                     /\ stats[j].fileCount > 0
                     /\ stats[j].totalCharacters =
                          Sum([h \in 1..Len(files) |->
                                  files[h].characterCount])
                     /\ stats[j].totalLengthInCm =
                          Sum([h \in 1..Len(files) |-> files[h].lengthInCm])
                     /\ stats[j].averageLengthInCm.den = stats[j].fileCount
                     /\ stats[j].averageLengthInCm.num
                          = stats[j].totalLengthInCm

\* the order of the types was changed by the sort, and so was the order of
\* the two files of a type
C25_Witness ==
    /\ Returned
    /\ Len(view.fileTypeStats) = 2
    /\ view.fileTypeStats[1].extension = MappingAsBuilt[2].extension
    /\ view.fileTypeStats[1].totalLengthInCm
         > view.fileTypeStats[2].totalLengthInCm
    /\ \E j \in 1..2 :
         /\ view.fileTypeStats[j].fileCount = 2
         /\ FilesOf(view.projectStats, view.fileTypeStats[j])[1].lengthInCm
              > FilesOf(view.projectStats, view.fileTypeStats[j])[2].lengthInCm
         /\ \E e \in 1..2 :
              /\ MappingAsBuilt[e].extension
                   = view.fileTypeStats[j].extension
              /\ MappingAsBuilt[e].files[1].lengthInCm
                   < MappingAsBuilt[e].files[2].lengthInCm

\* C26 as claimed: after getFileTypeStats has returned, and after
\* buildTreeItems has built the view by file type, the memoized project
\* stats hold under every extension the files that buildProjectStats put
\* there, in the same order.
C26_AsClaimed ==
    (/\ view.pc \in {"types", "built"}
     /\ view.viewMode = "byType") =>
        /\ cache.projectStatsCache # NULL
        /\ cache.projectStatsCache.filesByExtension = MappingAsBuilt

(***************************************************************************)
(* The root folders of the folder view.                                    *)
(***************************************************************************)
\* the names of the root folders, in the order of folderStructure
RootFolderNames ==
    [j \in 1..Len(view.folderStructure) |->
        MapGet(view.folders, view.folderStructure[j]).name]

\* C27: the root folders that buildFolderStructure returns are the folders
\* whose path has one part, each once, and they are in alphabetical order of
\* their names with capitals taken for small letters, whatever the files and
\* their order.
C27_RootFoldersSorted ==
    Built =>
        /\ SeqToSet(view.folderStructure)
             = {f.path : f \in {g \in SeqToSet(view.folders) :
                                   Depth(g.path) = 1}}
        /\ \A i, j \in 1..Len(view.folderStructure) :
               view.folderStructure[i] = view.folderStructure[j] => i = j
        /\ \A j \in 1..(Len(view.folderStructure) - 1) :
               localeCompare(toLowerCase(RootFolderNames[j]),
                             toLowerCase(RootFolderNames[j + 1])) <= 0

\* the files came in the order C/i.ts, x.y/z, b/c.md, and the root folders
\* are b, C, x.y
C27_Witness ==
    /\ Built
    /\ Len(view.fileStats) = 3
    /\ view.fileStats[1].relativePath = <<"C","/","i",".","t","s">>
    /\ view.fileStats[2].relativePath = <<"x",".","y","/","z">>
    /\ RootFolderNames = << <<"b">>, <<"C">>, <<"x",".","y">> >>

(***************************************************************************)
(* The exclude patterns.                                                   *)
(***************************************************************************)
\* the lines of the .gitignore file that are neither blank nor comments,
\* trimmed
SurvivingLines ==
    LET lines == split(gitignoreFile.content, "\n")
        kept == SelectSeq([j \in 1..Len(lines) |-> trim(lines[j])],
                          LAMBDA line : line # <<>> /\ line[1] # "#")
    IN  IF gitignoreFile.readable THEN kept ELSE <<>>

\* the one glob that the claim gives for line L
GlobOfLine(L) ==
    IF L[Len(L)] = "/" THEN <<"*","*","/">> \o L \o <<"*","*">>
    ELSE <<"*","*","/">> \o L

\* C28 as claimed: when getExcludePatterns has returned, gitignorePatterns
\* holds the surviving lines of the .gitignore file, and the globs that
\* findFiles is given to exclude by are the built-in patterns followed by
\* one glob for each surviving line L, '**/' + L + '**' when L ends with '/'
\* and '**/' + L otherwise.
C28_AsClaimed ==
    \A c \in Callers :
        run[c].pc = "findFiles" =>
            /\ gitignore.gitignorePatterns = SurvivingLines
            /\ Alternatives(run[c].excludePatterns)
                 = defaultExcludes
                     \o [j \in 1..Len(SurvivingLines) |->
                            GlobOfLine(SurvivingLines[j])]


(***************************************************************************)
(* A workspace without a readable .gitignore file.                         *)
(***************************************************************************)
\* getExcludePatterns of caller c resolves or rejects in this step
PatternsSettle(c) ==
    /\ run[c].pc = "patterns"
    /\ run'[c].pc # "patterns"

\* C29: when the .gitignore file is missing or cannot be read,
\* getExcludePatterns does not fail: no pattern is taken from the file, the
\* exclusion set handed to findFiles is exactly the built-in patterns, the
\* run goes on to findFiles, and a run that gets past findFiles returns the
\* project stats of the workspace (200 characters), not an error.
C29_UnreadableGitignore ==
    [][~gitignoreFile.readable =>
         \A c \in Callers :
            /\ PatternsSettle(c) =>
                 /\ run'[c].pc = "findFiles"
                 /\ lastOp'.ret.kind # "error"
                 /\ gitignore'.initialized
                 /\ gitignore'.gitignorePatterns = <<>>
                 /\ Alternatives(run'[c].excludePatterns) = defaultExcludes
            /\ (Settles(c) /\ run[c].pc \in {"modified", "chunk"}) =>
                 /\ lastOp'.ret.kind = "stats"
                 /\ lastOp'.ret.stats.totalCharacters = 200
                 /\ isAnalyzing' = FALSE]_vars

\* a run has returned project stats in a workspace without .gitignore file
C29_Witness ==
    /\ ~gitignoreFile.readable
    /\ gitignore.initialized
    /\ gitignore.gitignorePatterns = <<>>
    /\ lastOp.op = "settle"
    /\ lastOp.ret.kind = "stats"
    /\ lastOp.ret.stats.totalCharacters = 200


\* C30 as claimed: shouldIncludeFile accepts every path, so the files that a
\* run partitions into stale and unchanged, and then probes, are all the
\* files that findFiles returned, whatever their extension.
C30_AsClaimed ==
    \A c \in Callers :
        run[c].pc \in {"modified", "chunk"} =>
            /\ run[c].textFiles = findFiles
            /\ \A p \in SeqToSet(findFiles) : shouldIncludeFile(p)


(***************************************************************************)
(* Failures of a whole run.                                                *)
(***************************************************************************)
NoWorkspaceFolder == Error("No workspace folder found")

CycleOrder == <<"fun", "metric", "us", "time", "size">>

\* the mode that comes k places after mode in the cycle
ModeAfter(mode, k) ==
    LET i == CHOOSE j \in 1..Len(CycleOrder) : CycleOrder[j] = mode
    IN  CycleOrder[((i - 1 + k) % Len(CycleOrder)) + 1]

\* the format mode that the object with the workspace state key holds
InMemory(key) ==
    IF key = "statusBarFormatMode" THEN ui.statusBar ELSE ui.treeView

CallsMade == Sum(loop.stat) + Sum(loop.read) + Sum(loop.done)

\* the number of analyzeFile calls that have not returned
CallsInFlight == Sum(loop.stat) + Sum(loop.read)

\* C34: the loop calls analyzeFile on the files to analyze in consecutive
\* chunks of at most 50 files: while it awaits the chunk that starts at index
\* i, which is a multiple of 50, the calls made so far are one for each of the
\* first min(n, i + 50) files; never are more calls made than there are
\* files, nor more than 50 for one chunk; when the loop is left one call has
\* been made and has returned for each of the n files; and never are more
\* than 50 calls in flight.
C34_ChunksPartition ==
    /\ loop.i % chunkSize = 0
    /\ \A b \in DOMAIN loop.stat : Started(b) <= chunkSize
    /\ CallsMade <= loop.n
    /\ loop.pc = "await" => CallsMade = Min(loop.n, loop.i + chunkSize)
    /\ loop.pc = "after" => /\ CallsMade = loop.n
                            /\ Sum(loop.done) = loop.n
    /\ CallsInFlight <= chunkSize

\* 101 files: the loop is in its third chunk, of one file, and 50 calls were
\* in flight in the chunks before
C34_Witness ==
    /\ loop.n = 2 * chunkSize + 1
    /\ loop.pc = "await"
    /\ loop.i = 2 * chunkSize
    /\ CallsMade = loop.n
    /\ CallsInFlight = 1


(***************************************************************************)
(* The file counts of the folders.                                         *)
(***************************************************************************)
\* the files given to buildFolderStructure whose relative path is under the
\* path of the folder, at any depth, by their index
FilesUnder(folder) ==
    {j \in 1..Len(GivenFiles) :
        startsWith(GivenFiles[j].relativePath, folder.path \o <<"/">>)}

RootFolders ==
    [j \in 1..Len(view.folderStructure) |->
        MapGet(view.folders, view.folderStructure[j])]

ScaleFactorOf(c) ==
    IF run[c].pc = "chunk" THEN run[c].cmPerChar ELSE cmPerCharacter

\* a run of caller c that got past findFiles returns project stats in this
\* step
ReturnsStats(c) ==
    /\ Settles(c)
    /\ run[c].pc \in {"findFiles", "modified", "chunk"}
    /\ lastOp'.ret.kind = "stats"

\* C37 as claimed: in the project stats that a run returns, every text file
\* has as lengthInCm its characterCount times the scale factor that the run
\* read, the files whose stats were taken from the file cache included.
C37_AsClaimed ==
    [][\A c \in Callers :
         ReturnsStats(c) =>
            \A file \in RecordsOf(lastOp'.ret.stats) :
                file.isTextFile =>
                    file.lengthInCm = file.characterCount * ScaleFactorOf(c)
      ]_vars


(***************************************************************************)
(* The extension key and the directories of a file.                        *)
(***************************************************************************)
\* the name of the file at a path: what follows its last '/'
NameOf(path) == SubSeq(path, lastIndexOf(path, "/") + 1, Len(path))

C39_AsClaimed ==
    (lastOp.op = "resolved" /\ view.viewMode = "byType") =>
        /\ lastOp.ret.kind # "error"
        /\ view.pc = "built"
        /\ Len(view.typeItems) = Len(view.projectStats.filesByExtension)
        /\ \A j \in 1..Len(view.typeItems) :
             LET item == view.typeItems[j]
             IN  IF item.fileCount > 10
                 THEN Len(item.children) = 10 /\ item.more = item.fileCount - 10
                 ELSE Len(item.children) = item.fileCount /\ item.more = 0


\* the requests for the root items that await analyzeWorkspace
Loading == {q \in Requests : view.request[q] = "loading"}

\* C40: the provider never has two calls of analyzeWorkspace outstanding.
\* isLoading is set exactly while a request awaits its call, so it is
\* cleared when the load ends, by success or by error; a request for the
\* root items made while isLoading is set returns the item 'Analyzing
\* project...' and awaits nothing; a request made when there are a workspace
\* folder and no root items and isLoading is clear loads.
C40_OneLoadAtATime ==
    /\ [](Cardinality(Loading) <= 1)
    /\ [](view.isLoading <=> Loading # {})
    /\ [][\A q \in Requests :
            (lastOp'.op = "getChildren" /\ lastOp'.who = q
               /\ workspaceFolders /\ ~hasRootItems(view)) =>
                IF view.isLoading
                THEN lastOp'.ret = Placeholder /\ view' = view
                ELSE lastOp'.ret = Pending /\ view'.request[q] = "loading"
         ]_vars

\* a second request for the root items has just got 'Analyzing project...'
\* while the first one awaits analyzeWorkspace
C40_Witness ==
    /\ lastOp.op = "getChildren"
    /\ lastOp.who = 2
    /\ lastOp.ret = Placeholder
    /\ view.isLoading
    /\ Loading = {1}

=============================================================================
